---- MODULE Spec2Model ----
(***************************************************************************)
(* A model of the 3D-MRE support routines of 3dmre_stats:                  *)
(*   mmdi3d_utils.find_mmdi3d_datasets   (dataset matcher)                 *)
(*   mmdi3d_utils.get_mmdi3d_freq        (frequency from SeriesDescription)*)
(*   mmdi3d_utils.run_mmdi3d_case        (batch run of the external tool)  *)
(*   os_utils.find_existing_composite_path and its path helpers            *)
(* Python strings are modelled as sequences of one-character strings, so   *)
(* that lower(), replace(), split(), strip(), `in` and endswith() are      *)
(* computed rather than assumed.                                           *)
(***************************************************************************)
EXTENDS Integers, Sequences, FiniteSets, TLC

VARIABLES
    pc,            \* the routine and program point the model is at
    rapid,         \* find_mmdi3d_datasets: the rapid argument
    nscanned,      \* find_mmdi3d_datasets: folders taken from dir_folder_list so far
    folder,        \* find_mmdi3d_datasets: the folder of the current iteration
    outcome,       \* find_mmdi3d_datasets: the branch the last iteration ended in
    data,          \* data3d['data']
    Manufacturer,  \* data3d['Manufacturer']
    k,             \* run_mmdi3d_case: index of the dataset being run
    invoked,       \* run_mmdi3d_case: the datasets the tool was run on, in order
    codes,         \* run_mmdi3d_case: the exit codes returned, in order
    series_dirs,   \* run_mmdi3d_case: the result list
    mag_dcm,       \* get_mmdi3d_freq: the first readable DICOM of mag_dir, if any
    freq,          \* get_mmdi3d_freq: the returned string
    path_1,        \* find_existing_composite_path: first argument
    path_2,        \* find_existing_composite_path: second argument
    disk,          \* find_existing_composite_path: the paths that exist on disk
    j,             \* find_existing_composite_path: outer loop variable
    i,             \* find_existing_composite_path: inner loop variable
    probed,        \* find_existing_composite_path: candidates tested, in order
    found,         \* find_existing_composite_path: the returned value
    split_path,    \* path_split: the path argument
    split_n,       \* path_split: the n_elem argument
    clean_path_first, \* path_split: the clean_path_first argument
    head_tail,     \* path_split: the returned pair <<head, tail>>
    digest_text,   \* parse_digest: the text of the file at digest_path
    lines,         \* parse_digest: the lines not scraped yet
    content,       \* parse_digest: the dict content, in insertion order
    comments,      \* parse_digest: the receivers of the methods in the set comments
    parsed,        \* the calls of parse_digest that returned: <<text, content>>
    digest_path,   \* get_alc_digest_series: the argument
    series,        \* get_alc_digest_series: the returned string
    warned,        \* get_alc_digest_series: the warning was printed
    alc2_digest,   \* get_mmdi3d_slice_data: the argument
    temp_dir,      \* get_mmdi3d_slice_data: the argument, then the directory used
    inversion_3d_dir, \* get_mmdi3d_slice_data: the argument, then the directory used
    fs,            \* get_mmdi3d_slice_data: the file system
    key1,          \* get_mmdi3d_slice_data: keys of content taken by the loop of line 296
    mag_series,    \* get_mmdi3d_slice_data: the local mag_series, once it is bound
    slice_data,    \* get_mmdi3d_slice_data: the dict slice_data, in insertion order
    contrast_parent_dir, \* get_mmdi3d_slice_data: the local of that name
    nslices,       \* get_mmdi3d_slice_data: slices taken by the loop of line 348
    log,           \* get_mmdi3d_slice_data: the messages given to add_to_log
    folder_lists,  \* find_mmdi3d_datasets: two listings of the same top_dir
    datasets,      \* find_mmdi3d_datasets: data3d['data'] returned for each listing
    exclude_negative_pixels, \* apply_rois_to_mmdi3d_contrasts: the argument
    pixel_array,   \* apply_rois_to_mmdi3d_contrasts: the pixels of the image files
    contrast,      \* apply_rois_to_mmdi3d_contrasts: contrasts taken by the loop of line 388
    contrast_data, \* apply_rois_to_mmdi3d_contrasts: the dict contrast_data
    read_paths,    \* apply_rois_to_mmdi3d_contrasts: <<contrast, path>> of the images read
    ffrac_dcms,    \* get_roi_and_ffrac_images_from_digest: the headers at ffrac_paths
    ffrac_image,   \* get_roi_and_ffrac_images_from_digest: the slices of ffrac_image
    ffrac_i,       \* get_roi_and_ffrac_images_from_digest: slices taken by the loop of line 550
    printed        \* get_roi_and_ffrac_images_from_digest: the warnings printed

vars == <<pc, rapid, nscanned, folder, outcome, data, Manufacturer, k, invoked, codes,
          series_dirs, mag_dcm, freq, path_1, path_2, disk, j, i, probed, found,
          split_path, split_n, clean_path_first, head_tail,
          digest_text, lines, content, comments, parsed,
          digest_path, series, warned,
          alc2_digest, temp_dir, inversion_3d_dir, fs, key1, mag_series, slice_data,
          contrast_parent_dir, nslices, log,
          folder_lists, datasets,
          exclude_negative_pixels, pixel_array, contrast, contrast_data, read_paths,
          ffrac_dcms, ffrac_image, ffrac_i, printed>>

scanVars == <<rapid, nscanned, folder, outcome, data, Manufacturer>>
runVars  == <<k, invoked, codes, series_dirs>>
freqVars == <<mag_dcm, freq>>
pathVars == <<path_1, path_2, disk, j, i, probed, found>>
splitVars == <<split_path, split_n, clean_path_first, head_tail>>

\* the state of the routines modelled after find_existing_composite_path
digestVars == <<digest_text, lines, content, comments, parsed>>
seriesVars == <<digest_path, series, warned>>
sliceVars == <<alc2_digest, temp_dir, inversion_3d_dir, fs, key1, mag_series, slice_data,
               contrast_parent_dir, nslices, log>>
orderVars == <<folder_lists, datasets>>
roiVars == <<exclude_negative_pixels, pixel_array, contrast, contrast_data, read_paths>>
ffracVars == <<ffrac_dcms, ffrac_image, ffrac_i, printed>>
lastVars == <<orderVars, roiVars, ffracVars>>
laterVars == <<splitVars, digestVars, seriesVars, sliceVars, lastVars>>

----------------------------------------------------------------------------
(* Bounds of the model.                                                    *)

\* folders under top_dir in one scan
MaxFolders == 3
\* SeriesNumber ranges over 1..MaxSeries
MaxSeries == 3
\* length of a SeriesDescription given to get_mmdi3d_freq
MaxDescLen == 4
\* number of segments of a path given to find_existing_composite_path
MaxDepth == 2

----------------------------------------------------------------------------
(* Python str operations on sequences of characters.                       *)

UpperChars == <<"A","B","C","D","E","F","G","H","I","J","K","L","M",
                "N","O","P","Q","R","S","T","U","V","W","X","Y","Z">>
LowerChars == <<"a","b","c","d","e","f","g","h","i","j","k","l","m",
                "n","o","p","q","r","s","t","u","v","w","x","y","z">>
DigitChars == {"0","1","2","3","4","5","6","7","8","9"}
SpaceChars == {" "}

\* str.lower() on one character
LowerChar(c) ==
    IF \E n \in DOMAIN UpperChars : UpperChars[n] = c
    THEN LowerChars[CHOOSE n \in DOMAIN UpperChars : UpperChars[n] = c]
    ELSE c

\* str.lower()
Lower(s) == [n \in DOMAIN s |-> LowerChar(s[n])]

\* sub in s
Contains(s, sub) ==
    \E n \in 0..(Len(s) - Len(sub)) : SubSeq(s, n + 1, n + Len(sub)) = sub

\* s.endswith(suf)
EndsWith(s, suf) ==
    /\ Len(suf) <= Len(s)
    /\ SubSeq(s, Len(s) - Len(suf) + 1, Len(s)) = suf

\* s.replace(c, '') for a one-character c
RECURSIVE RemoveChar(_, _)
RemoveChar(s, c) ==
    IF s = <<>> THEN <<>>
    ELSE IF Head(s) = c THEN RemoveChar(Tail(s), c)
    ELSE <<Head(s)>> \o RemoveChar(Tail(s), c)

\* s.lstrip() and s.rstrip() and s.strip()
RECURSIVE LStrip(_)
LStrip(s) ==
    IF s # <<>> /\ Head(s) \in SpaceChars THEN LStrip(Tail(s)) ELSE s
RECURSIVE RStrip(_)
RStrip(s) ==
    IF s # <<>> /\ s[Len(s)] \in SpaceChars
    THEN RStrip(SubSeq(s, 1, Len(s) - 1)) ELSE s
Strip(s) == RStrip(LStrip(s))

\* s.isnumeric(): non-empty and every character numeric
IsNumeric(s) == s # <<>> /\ \A n \in DOMAIN s : s[n] \in DigitChars

\* s.split(sep)[0]: the text before the first occurrence of sep
SplitFirst(s, sep) ==
    IF Contains(s, sep)
    THEN LET p == CHOOSE n \in 0..(Len(s) - Len(sep)) :
                      /\ SubSeq(s, n + 1, n + Len(sep)) = sep
                      /\ \A m \in 0..(n - 1) : SubSeq(s, m + 1, m + Len(sep)) # sep
         IN  SubSeq(s, 1, p)
    ELSE s

\* s[-n:] for 1 <= n, and s[-n+1:] as Python slices them
LastChars(s, n) == IF n >= Len(s) THEN s ELSE SubSeq(s, Len(s) - n + 1, Len(s))
SliceFromNeg(s, n) ==
    \* s[n:] with n <= 0: n = 0 is the whole string, n < 0 counts from the end
    IF n = 0 THEN s ELSE LastChars(s, 0 - n)

----------------------------------------------------------------------------
(* find_mmdi3d_datasets                                                    *)

\* vendor thresholds on the DICOM file count
GE_MIN_COUNT == 800
PHILIPS_MIN_COUNT == 280

\* the literals the code tests for
STR_siemens == <<"s","i","e","m","e","n","s">>
STR_philips == <<"p","h","i","l","i","p","s">>
STR_ge      == <<"g","e">>
STR_MRE     == <<"M","R","E">>
STR_928     == <<"9","2","8">>
STR_3D      == <<"3","D">>
STR_mag     == <<"m","a","g">>
STR_p_p     == <<"p","_","p">>
STR_3dmmdi  == <<"3","d","-","m","m","d","i">>

\* Manufacturer tag values met in the scan
ManufacturerTags ==
    { <<"S","I","E","M","E","N","S">>,
      <<"G","E"," ","M","E","D","I","C","A","L">>,
      <<"P","h","i","l","i","p","s">>,
      <<"C","a","n","o","n">> }

\* SeriesDescription tag values met in the scan
DescriptionTags ==
    { <<"9","2","8"," ","3","D"," ","m","a","g">>,
      <<"9","2","8"," ","3","D"," ","p","_","p">>,
      <<"9","2","8"," ","3","D">>,
      <<"M","R","E">> }

\* SequenceName tag values met in the scan
SequenceTags == { <<"e","p","2","d">>, <<"3","d","-","m","m","d","i">> }

\* the DICOM header that represents a folder: a pydicom dataset is a mapping
\* from the tags present to their values
FullDcms ==
    [ Manufacturer : ManufacturerTags,
      SeriesDescription : DescriptionTags,
      SequenceName : SequenceTags,
      SeriesNumber : 1..MaxSeries ]

Restrict(f, K) == [key \in K |-> f[key]]

TagSets ==
    { {"SeriesNumber"} \cup K : K \in SUBSET {"Manufacturer", "SeriesDescription", "SequenceName"} }

Dcms == { Restrict(d, K) : d \in FullDcms, K \in TagSets }

\* the file listing of a folder: the number of files, and whether the first
\* file fails to parse as DICOM (all the others parse)
Listings ==
    { [nfiles |-> 0, firstbad |-> FALSE],
      [nfiles |-> 1, firstbad |-> TRUE],
      [nfiles |-> 281, firstbad |-> FALSE], [nfiles |-> 281, firstbad |-> TRUE],
      [nfiles |-> 800, firstbad |-> FALSE],
      [nfiles |-> 801, firstbad |-> FALSE] }

NoFolder == [name |-> 0]

Folders(n) ==
    { [name |-> n, dcm |-> d, nfiles |-> l.nfiles, firstbad |-> l.firstbad] :
        d \in Dcms, l \in Listings }

\* dcm.get(tag, '')
DcmGet(d, tag) == IF tag \in DOMAIN d THEN d[tag] ELSE <<>>

\* lines 49-55: rapid mode reads file_list[0]; an empty list or an unreadable
\* first file raises, and the bare except continues with the next folder
RapidReadFails(f) == f.nfiles = 0 \/ f.firstbad

\* lines 46-65: the number of files counted as DICOM
DcmCount(f, rap) ==
    IF rap THEN f.nfiles
    ELSE IF f.firstbad THEN f.nfiles - 1 ELSE f.nfiles

\* a variant of SkipFolder that does not test SequenceName
SkipFolder_no_sequence_test(f, rap) ==
    \/ DcmCount(f, rap) = 0
    \/ "SeriesDescription" \notin DOMAIN f.dcm
    \/ "Manufacturer" \notin DOMAIN f.dcm

\* line 72: the folder is skipped
SkipFolder(f, rap) ==
    \/ DcmCount(f, rap) = 0
    \/ "SeriesDescription" \notin DOMAIN f.dcm
    \/ "Manufacturer" \notin DOMAIN f.dcm
    \/ Contains(DcmGet(f.dcm, "SequenceName"), STR_3dmmdi)

\* lines 76-81: data3d['Manufacturer'] after the folder, given its value before
ClassifyManufacturer(d, before) ==
    IF Contains(Lower(d.Manufacturer), STR_siemens) THEN "Siemens"
    ELSE IF Contains(Lower(d.Manufacturer), STR_philips) THEN "Philips"
    ELSE IF Contains(Lower(d.Manufacturer), STR_ge) THEN "GE"
    ELSE before

\* a variant of ge_valid_like whose file-count test is inclusive
ge_valid_like_inclusive(f, rap, mfr) ==
    /\ mfr = "GE"
    /\ Contains(f.dcm.SeriesDescription, STR_MRE)
    /\ DcmCount(f, rap) >= GE_MIN_COUNT

\* lines 84-86
ge_valid_like(f, rap, mfr) ==
    /\ mfr = "GE"
    /\ Contains(f.dcm.SeriesDescription, STR_MRE)
    /\ DcmCount(f, rap) > GE_MIN_COUNT
siemens_valid_like(f, mfr) ==
    /\ mfr = "Siemens"
    /\ Contains(f.dcm.SeriesDescription, STR_928)
    /\ Contains(f.dcm.SeriesDescription, STR_3D)
philips_valid_like(f, rap, mfr) ==
    /\ mfr = "Philips"
    /\ DcmCount(f, rap) > PHILIPS_MIN_COUNT

\* line 90 and 104: a new entry holding a magnitude folder
MagEntry(f) == [mag |-> f.name, mag_series |-> f.dcm.SeriesNumber]
\* line 116: a new entry holding a phase folder
PhaseEntry(f) == [phase |-> f.name, phase_series |-> f.dcm.SeriesNumber]

\* variants of MagMatches and PhaseMatches that pair equal series numbers
MagMatches_same_series(e, sn) == "phase_series" \in DOMAIN e /\ e.phase_series = sn
PhaseMatches_same_series(e, sn) == "mag_series" \in DOMAIN e /\ e.mag_series = sn

\* line 97: entry e holds the phase half of magnitude series sn
MagMatches(e, sn) == "phase_series" \in DOMAIN e /\ e.phase_series = sn + 1
\* line 109: entry e holds the magnitude half of phase series sn
PhaseMatches(e, sn) == "mag_series" \in DOMAIN e /\ e.mag_series = sn - 1

\* lines 96-100: the value of i when the for loop is left, either at the break
\* (the first matching index) or after the last index
MagLoopExit(d, sn) ==
    IF \E n \in 1..Len(d) : MagMatches(d[n], sn)
    THEN CHOOSE n \in 1..Len(d) :
             /\ MagMatches(d[n], sn)
             /\ \A m \in 1..(n - 1) : ~MagMatches(d[m], sn)
    ELSE Len(d)

\* lines 108-112: the same for the loop that looks for the magnitude half
PhaseLoopExit(d, sn) ==
    IF \E n \in 1..Len(d) : PhaseMatches(d[n], sn)
    THEN CHOOSE n \in 1..Len(d) :
             /\ PhaseMatches(d[n], sn)
             /\ \A m \in 1..(n - 1) : ~PhaseMatches(d[m], sn)
    ELSE Len(d)

\* lines 94-104: a Siemens folder whose description ends in 'mag'
AddSiemensMag(d, f) ==
    LET sn  == f.dcm.SeriesNumber
        hit == \E n \in 1..Len(d) : MagMatches(d[n], sn)
        x   == MagLoopExit(d, sn)
        d1  == IF hit THEN [d EXCEPT ![x] = MagEntry(f) @@ d[x]] ELSE d
    IN  IF Len(d1) = 0 \/ (x = Len(d1) /\ "mag" \notin DOMAIN d1[x])
        THEN Append(d1, MagEntry(f))
        ELSE d1

\* lines 106-116: a Siemens folder whose description ends in 'p_p'
AddSiemensPhase(d, f) ==
    LET sn  == f.dcm.SeriesNumber
        hit == \E n \in 1..Len(d) : PhaseMatches(d[n], sn)
        x   == PhaseLoopExit(d, sn)
        d1  == IF hit THEN [d EXCEPT ![x] = PhaseEntry(f) @@ d[x]] ELSE d
    IN  IF Len(d1) = 0 \/ (x = Len(d1) /\ "phase" \notin DOMAIN d1[x])
        THEN Append(d1, PhaseEntry(f))
        ELSE d1

\* a variant of AddFolder that merges a GE or Philips folder into an entry of
\* the same series number instead of appending
AddFolder_merging(d, f, rap, mfr) ==
    IF ge_valid_like(f, rap, mfr) \/ philips_valid_like(f, rap, mfr)
    THEN IF \E n \in 1..Len(d) : "mag_series" \in DOMAIN d[n] /\ d[n].mag_series = f.dcm.SeriesNumber
         THEN [n \in 1..Len(d) |->
                  IF "mag_series" \in DOMAIN d[n] /\ d[n].mag_series = f.dcm.SeriesNumber
                  THEN MagEntry(f) @@ d[n] ELSE d[n]]
         ELSE Append(d, MagEntry(f))
    ELSE IF siemens_valid_like(f, mfr)
    THEN IF EndsWith(Lower(f.dcm.SeriesDescription), STR_mag) THEN AddSiemensMag(d, f)
         ELSE IF EndsWith(Lower(f.dcm.SeriesDescription), STR_p_p) THEN AddSiemensPhase(d, f)
         ELSE d
    ELSE d

\* lines 89-119: data3d['data'] after a folder that was not skipped
AddFolder(d, f, rap, mfr) ==
    IF ge_valid_like(f, rap, mfr) \/ philips_valid_like(f, rap, mfr)
    THEN Append(d, MagEntry(f))
    ELSE IF siemens_valid_like(f, mfr)
    THEN IF EndsWith(Lower(f.dcm.SeriesDescription), STR_mag) THEN AddSiemensMag(d, f)
         ELSE IF EndsWith(Lower(f.dcm.SeriesDescription), STR_p_p) THEN AddSiemensPhase(d, f)
         ELSE d
    ELSE d

\* lines 89-119: the branch of the if/elif chain a folder that was not skipped
\* ends in
Branch(f, rap, mfr) ==
    IF ge_valid_like(f, rap, mfr) \/ philips_valid_like(f, rap, mfr) THEN "append"
    ELSE IF siemens_valid_like(f, mfr)
    THEN IF EndsWith(Lower(f.dcm.SeriesDescription), STR_mag) THEN "mag"
         ELSE IF EndsWith(Lower(f.dcm.SeriesDescription), STR_p_p) THEN "phase"
         ELSE "warning"
    ELSE "none"

\* lines 43-69: the loop takes the next folder of dir_folder_list(top_dir),
\* lists its files and reads them.  Folder names are distinct; a folder is
\* named by its position in the listing.
OpenFolder ==
    /\ pc = "scan"
    /\ nscanned < MaxFolders
    /\ \E f \in Folders(nscanned + 1) : folder' = f
    /\ nscanned' = nscanned + 1
    /\ pc' = "folder"
    /\ UNCHANGED <<rapid, outcome, data, Manufacturer, runVars, freqVars, pathVars, laterVars>>

\* lines 49-53 (the continue of rapid mode) and 72-119: the rest of the
\* iteration.  dcm is the header read in this iteration whenever it is used:
\* rapid mode continues when the read fails, and careful mode skips the folder
\* on dcm_count = 0 before any tag of dcm is looked at.
ProcessFolder ==
    /\ pc = "folder"
    /\ IF (rapid /\ RapidReadFails(folder)) \/ SkipFolder(folder, rapid)
       THEN /\ outcome' = "skip"
            /\ UNCHANGED <<data, Manufacturer>>
       ELSE /\ Manufacturer' = ClassifyManufacturer(folder.dcm, Manufacturer)
            /\ data' = AddFolder(data, folder, rapid, Manufacturer')
            /\ outcome' = Branch(folder, rapid, Manufacturer')
    /\ folder' = NoFolder
    /\ pc' = "scan"
    /\ UNCHANGED <<rapid, nscanned, runVars, freqVars, pathVars, laterVars>>

\* line 122: the scan returns data3d, which the caller hands to run_mmdi3d_case
ScanReturn ==
    /\ pc = "scan"
    /\ pc' = "case"
    /\ UNCHANGED <<scanVars, runVars, freqVars, pathVars, laterVars>>

----------------------------------------------------------------------------
(* run_mmdi3d_case and run_mmdi3d_series                                   *)

\* exit codes of the external tool
ExitCodes == {0, 1}

\* run_mmdi3d_series lines 178-195: the keys of dataset the command is built
\* from; a missing key raises KeyError
SeriesKeyError(dataset, manufacturer) ==
    \/ manufacturer \in {"GE", "Philips"} /\ "mag" \notin DOMAIN dataset
    \/ manufacturer = "Siemens" /\ ("mag" \notin DOMAIN dataset \/ "phase" \notin DOMAIN dataset)
    \/ "mag" \notin DOMAIN dataset

\* run_mmdi3d_case line 222 reads dataset['mag_series'] before the series is run
CaseKeyError(dataset, manufacturer) ==
    \/ "mag_series" \notin DOMAIN dataset
    \/ SeriesKeyError(dataset, manufacturer)

\* lines 213-218: an empty data3d['data'] returns the empty list at once
RunCheck ==
    /\ pc = "case"
    /\ series_dirs' = <<>>
    /\ IF data = <<>> THEN pc' = "returned" /\ k' = k
       ELSE pc' = "run" /\ k' = 1
    /\ UNCHANGED <<scanVars, invoked, codes, freqVars, pathVars, laterVars>>

\* lines 221-237: one iteration of the loop over data3d['data']; series_dir is
\* inversion_3d_dir joined with str(mag_series) and is modelled by mag_series
RunSeries ==
    /\ pc = "run"
    /\ k <= Len(data)
    /\ IF CaseKeyError(data[k], Manufacturer)
       THEN /\ pc' = "raised"
            /\ UNCHANGED <<k, invoked, codes, series_dirs>>
       ELSE \E exit_code \in ExitCodes :
            /\ invoked' = Append(invoked, k)
            /\ codes' = Append(codes, exit_code)
            /\ series_dirs' = IF exit_code = 0
                              THEN Append(series_dirs, data[k].mag_series)
                              ELSE series_dirs
            /\ k' = k + 1
            /\ pc' = "run"
    /\ UNCHANGED <<scanVars, freqVars, pathVars, laterVars>>

\* line 240
RunReturn ==
    /\ pc = "run"
    /\ k > Len(data)
    /\ pc' = "returned"
    /\ UNCHANGED <<scanVars, runVars, freqVars, pathVars, laterVars>>

----------------------------------------------------------------------------
(* The specification of a scan of top_dir followed by the batch run.       *)

IdleRun  == k = 0 /\ invoked = <<>> /\ codes = <<>> /\ series_dirs = <<>>
IdleScan == rapid = FALSE /\ nscanned = 0 /\ folder = NoFolder /\ outcome = "start"
            /\ data = <<>> /\ Manufacturer = ""
IdleFreq == mag_dcm = <<>> /\ freq = <<>>
IdleSplit == split_path = <<>> /\ split_n = 0 /\ clean_path_first = TRUE /\ head_tail = <<>>
IdleDigest == digest_text = <<>> /\ lines = <<>> /\ content = <<>> /\ comments = <<>>
              /\ parsed = <<>>
IdleSeries == digest_path = <<>> /\ series = <<>> /\ warned = FALSE
IdleSlice == alc2_digest = <<>> /\ temp_dir = <<>> /\ inversion_3d_dir = <<>> /\ fs = <<>>
             /\ key1 = 0 /\ mag_series = <<>> /\ slice_data = <<>> /\ nslices = 0
             /\ contrast_parent_dir = <<>>
             /\ log = <<>>
IdleOrder == folder_lists = <<>> /\ datasets = <<>>
IdleRoi == exclude_negative_pixels = FALSE /\ pixel_array = <<>> /\ contrast = 0
           /\ contrast_data = <<>> /\ read_paths = <<>>
IdleFfrac == ffrac_dcms = <<>> /\ ffrac_image = <<>> /\ ffrac_i = 0 /\ printed = <<>>
IdleLast == IdleOrder /\ IdleRoi /\ IdleFfrac
IdleLater == IdleSplit /\ IdleDigest /\ IdleSeries /\ IdleSlice /\ IdleLast
IdlePath == path_1 = <<>> /\ path_2 = <<>> /\ disk = {} /\ j = 0 /\ i = 0
            /\ probed = <<>> /\ found = <<>>

Init ==
    /\ pc = "scan"
    /\ rapid \in BOOLEAN
    /\ nscanned = 0
    /\ folder = NoFolder
    /\ outcome = "start"
    /\ data = <<>>
    /\ Manufacturer = ""
    /\ IdleRun /\ IdleFreq /\ IdlePath /\ IdleLater

Next ==
    \/ OpenFolder
    \/ ProcessFolder
    \/ ScanReturn
    \/ RunCheck
    \/ RunSeries
    \/ RunReturn

Spec == Init /\ [][Next]_vars

----------------------------------------------------------------------------
(* Properties of find_mmdi3d_datasets and run_mmdi3d_case, checked under   *)
(* Spec.  A folder is described here by its own tags and files.            *)

\* the vendor a Manufacturer tag names, by case-insensitive substring
VendorOf(f) ==
    IF Contains(Lower(f.dcm.Manufacturer), STR_siemens) THEN "Siemens"
    ELSE IF Contains(Lower(f.dcm.Manufacturer), STR_philips) THEN "Philips"
    ELSE IF Contains(Lower(f.dcm.Manufacturer), STR_ge) THEN "GE"
    ELSE "unknown"

\* the number of files of the folder that parse as DICOM
Parseable(f) == IF f.firstbad THEN f.nfiles - 1 ELSE f.nfiles

\* the iteration is at the folder and the folder is not skipped (lines 49-73)
Considered ==
    /\ pc = "folder"
    /\ ~(rapid /\ RapidReadFails(folder))
    /\ ~SkipFolder(folder, rapid)

\* a considered folder that is valid Siemens data: vendor Siemens, description
\* containing '928' and '3D'
ValidSiemens ==
    /\ Considered
    /\ VendorOf(folder) = "Siemens"
    /\ Contains(folder.dcm.SeriesDescription, STR_928)
    /\ Contains(folder.dcm.SeriesDescription, STR_3D)

DescEndsWith(suf) == EndsWith(Lower(folder.dcm.SeriesDescription), suf)

\* entry n of the list receives the magnitude (phase) half and nothing else changes
MagAttachedAt(n) == data' = [data EXCEPT ![n] = MagEntry(folder) @@ data[n]]
PhaseAttachedAt(n) == data' = [data EXCEPT ![n] = PhaseEntry(folder) @@ data[n]]

C1_Step ==
    /\ (ValidSiemens /\ DescEndsWith(STR_mag)) =>
          IF \E n \in 1..Len(data) : MagMatches(data[n], folder.dcm.SeriesNumber)
          THEN \E n \in 1..Len(data) :
                   MagMatches(data[n], folder.dcm.SeriesNumber) /\ MagAttachedAt(n)
          ELSE data' = Append(data, MagEntry(folder))
    /\ (ValidSiemens /\ DescEndsWith(STR_p_p)) =>
          IF \E n \in 1..Len(data) : PhaseMatches(data[n], folder.dcm.SeriesNumber)
          THEN \E n \in 1..Len(data) :
                   PhaseMatches(data[n], folder.dcm.SeriesNumber) /\ PhaseAttachedAt(n)
          ELSE data' = Append(data, PhaseEntry(folder))

\* C1: a valid Siemens folder ending in 'mag' (resp. 'p_p') is attached to an
\* existing entry whose phase_series = SeriesNumber+1 (resp. mag_series =
\* SeriesNumber-1) if there is one, and otherwise starts a new entry holding
\* only that half, so that the folder is in exactly one entry afterwards.
C1_SiemensHalfAttachedOrNew == [][C1_Step]_vars

C2_First ==
    (/\ ValidSiemens
     /\ nscanned = 1
     /\ folder.dcm.SeriesDescription = <<"9","2","8"," ","3","D"," ","m","a","g">>)
    => data' = <<[mag |-> 1, mag_series |-> folder.dcm.SeriesNumber]>>

C2_Second ==
    (/\ ValidSiemens
     /\ nscanned = 2
     /\ folder.dcm.SeriesDescription = <<"9","2","8"," ","3","D"," ","p","_","p">>
     /\ Manufacturer = "Siemens"
     /\ data = <<[mag |-> 1, mag_series |-> folder.dcm.SeriesNumber - 1]>>)
    => data' = <<[mag |-> 1, mag_series |-> folder.dcm.SeriesNumber - 1,
                  phase |-> 2, phase_series |-> folder.dcm.SeriesNumber]>>

\* C2: a scan of a Siemens '928 3D mag' folder of series n followed by a
\* Siemens '928 3D p_p' folder of series n+1 leaves exactly one entry, with
\* mag_series = n, phase_series = n+1 and both folder names set: the first
\* folder leaves the single entry {mag, mag_series = n}, and the second folder,
\* met in that state, completes it.
C2_MagThenPhaseOneEntry == [][C2_First /\ C2_Second]_vars

C2_Witness ==
    /\ pc = "scan"
    /\ nscanned = 2
    /\ outcome = "phase"
    /\ data = <<[mag |-> 1, mag_series |-> 1, phase |-> 2, phase_series |-> 2]>>

\* C3: every entry of data3d['data'] that holds both mag_series and
\* phase_series has phase_series = mag_series + 1, after any sequence of
\* folders of any manufacturers.
C3_PairedByPlusOne ==
    \A n \in 1..Len(data) :
        {"mag_series", "phase_series"} \subseteq DOMAIN data[n]
            => data[n].phase_series = data[n].mag_series + 1

C3_Witness ==
    /\ pc = "scan"
    /\ nscanned = MaxFolders
    /\ outcome = "mag"
    /\ \E n \in 1..Len(data) : {"mag_series", "phase_series"} \subseteq DOMAIN data[n]
    /\ \E n \in 1..Len(data) : "phase_series" \notin DOMAIN data[n]

\* C4: a folder whose Manufacturer tag contains none of 'siemens', 'philips',
\* 'ge' produces no entry and modifies no entry, wherever it comes in the scan.
C4_UnknownVendorNoEffect ==
    [][(/\ pc = "folder"
        /\ "Manufacturer" \in DOMAIN folder.dcm
        /\ VendorOf(folder) = "unknown") => data' = data]_vars

\* C5: a considered GE folder whose SeriesDescription contains 'MRE' yields the
\* one entry {mag: folder, mag_series: SeriesNumber} if its counted file number
\* is greater than 800, and no entry if it is 800 or less.
C5_GEThreshold ==
    [][(/\ Considered
        /\ VendorOf(folder) = "GE"
        /\ Contains(folder.dcm.SeriesDescription, STR_MRE))
       => IF DcmCount(folder, rapid) > 800
          THEN data' = Append(data, [mag |-> folder.name,
                                     mag_series |-> folder.dcm.SeriesNumber])
          ELSE data' = data]_vars

C5_Witness ==
    /\ pc = "scan"
    /\ outcome = "append"
    /\ Manufacturer = "GE"
    /\ data = <<[mag |-> 2, mag_series |-> 1]>>

\* C6: each considered folder that passes the GE predicate ('MRE' and more than
\* 800 files) or the Philips predicate (more than 280 files) appends exactly
\* one entry at the end of data3d['data'] and leaves the earlier entries as
\* they were.
C6_AppendOnePerFolder ==
    [][(/\ Considered
        /\ \/ /\ VendorOf(folder) = "GE"
              /\ Contains(folder.dcm.SeriesDescription, STR_MRE)
              /\ DcmCount(folder, rapid) > 800
           \/ /\ VendorOf(folder) = "Philips"
              /\ DcmCount(folder, rapid) > 280)
       => /\ Len(data') = Len(data) + 1
          /\ SubSeq(data', 1, Len(data)) = data
          /\ data'[Len(data')] = [mag |-> folder.name,
                                  mag_series |-> folder.dcm.SeriesNumber]]_vars

C6_Witness ==
    /\ pc = "scan"
    /\ outcome = "append"
    /\ Manufacturer = "Philips"
    /\ data = <<[mag |-> 1, mag_series |-> 2], [mag |-> 2, mag_series |-> 2]>>

\* the folders the skip rule names
NamedSkip(f) ==
    \/ Parseable(f) = 0
    \/ "SeriesDescription" \notin DOMAIN f.dcm
    \/ "Manufacturer" \notin DOMAIN f.dcm
    \/ Contains(DcmGet(f.dcm, "SequenceName"), STR_3dmmdi)

\* C7: a folder with no parseable DICOM file, or without SeriesDescription or
\* Manufacturer, or whose SequenceName contains '3d-mmdi', leaves the entry
\* list and the recorded Manufacturer as they were.
C7_SkippedFolderNoEffect ==
    [][(pc = "folder" /\ NamedSkip(folder))
       => (data' = data /\ Manufacturer' = Manufacturer)]_vars

C7_Witness ==
    /\ pc = "scan"
    /\ outcome = "skip"
    /\ nscanned = 2
    /\ Manufacturer = "GE"
    /\ Len(data) = 1

\* the series directories of the datasets whose run returned 0, in list order
RECURSIVE SuccessfulDirs(_, _)
SuccessfulDirs(d, c) ==
    IF d = <<>> \/ c = <<>> THEN <<>>
    ELSE (IF Head(c) = 0 THEN <<Head(d).mag_series>> ELSE <<>>)
         \o SuccessfulDirs(Tail(d), Tail(c))

\* C9: run_mmdi3d_case on the list find_mmdi3d_datasets produced ends by
\* returning, having run the tool exactly once per entry in list order
\* whatever the exit codes were, and returns the series directories of the
\* entries whose exit code was 0, in list order (nothing for an empty list).
C9_RunOncePerEntry ==
    pc \in {"returned", "raised"} =>
        /\ pc = "returned"
        /\ invoked = [n \in 1..Len(data) |-> n]
        /\ Len(codes) = Len(data)
        /\ series_dirs = SuccessfulDirs(data, codes)

----------------------------------------------------------------------------
(* get_mmdi3d_freq                                                         *)

STR_60  == <<"6","0">>
STR_hz  == <<"h","z">>
STR_mre == <<"m","r","e">>

\* lines 154-159: the loop over i = 1..len(series_desc); at the first i for
\* which series_desc[-i:].strip() is not numeric, freq = series_desc[-i+1:].strip().
\* When no i breaks the loop, freq keeps its default.
FreqBefore(s) ==
    IF \E n \in 1..Len(s) : ~IsNumeric(Strip(LastChars(s, n)))
    THEN LET n == CHOOSE n \in 1..Len(s) :
                      /\ ~IsNumeric(Strip(LastChars(s, n)))
                      /\ \A m \in 1..(n - 1) : IsNumeric(Strip(LastChars(s, m)))
         IN  Strip(SliceFromNeg(s, 1 - n))
    ELSE STR_60

\* lines 132-165: m is the list of the DICOMs read (none, or the first readable)
get_mmdi3d_freq(m) ==
    IF m = <<>> THEN STR_60
    ELSE LET series_desc ==
                 RemoveChar(RemoveChar(Lower(DcmGet(m[1], "SeriesDescription")), "-"), "_")
         IN  IF Contains(series_desc, STR_hz)
             THEN FreqBefore(STR_mre \o Strip(SplitFirst(series_desc, STR_hz)))
             ELSE STR_60

\* the characters of the SeriesDescriptions given to get_mmdi3d_freq
FreqChars == {"6", "0", "H", "h", "z", "-", "_", " ", "m"}

FreqDescriptions == UNION { [1..n -> FreqChars] : n \in 0..MaxDescLen }

\* what reading mag_dir gives: no readable DICOM, a DICOM without
\* SeriesDescription, or a DICOM with one
MagDcms ==
    { <<>>, <<[SeriesNumber |-> 1]>> }
    \cup { <<[SeriesNumber |-> 1, SeriesDescription |-> s]>> : s \in FreqDescriptions }

FreqCall ==
    /\ pc = "freq"
    /\ freq' = get_mmdi3d_freq(mag_dcm)
    /\ pc' = "freq_done"
    /\ UNCHANGED <<mag_dcm, scanVars, runVars, pathVars, laterVars>>

InitFreq ==
    /\ pc = "freq"
    /\ mag_dcm \in MagDcms
    /\ freq = <<>>
    /\ IdleScan /\ IdleRun /\ IdlePath /\ IdleLater

NextFreq == FreqCall

SpecFreq == InitFreq /\ [][NextFreq]_vars

\* the maximal run of digits at the end of s
RECURSIVE TrailingDigits(_)
TrailingDigits(s) ==
    IF s # <<>> /\ s[Len(s)] \in DigitChars
    THEN TrailingDigits(SubSeq(s, 1, Len(s) - 1)) \o <<s[Len(s)]>>
    ELSE <<>>

\* the SeriesDescription lower-cased, with '-' and '_' removed
NormalizedDescription(m) ==
    IF m = <<>> THEN <<>>
    ELSE RemoveChar(RemoveChar(Lower(DcmGet(m[1], "SeriesDescription")), "-"), "_")

\* the value C8 describes: the digits that precede the first 'hz' (blanks
\* between them and 'hz' aside), and '60' when there is no 'hz' or no digits
DescribedFreq(m) ==
    LET norm == NormalizedDescription(m)
        d    == TrailingDigits(Strip(SplitFirst(norm, STR_hz)))
    IN  IF Contains(norm, STR_hz) /\ d # <<>> THEN d ELSE STR_60

\* C8: get_mmdi3d_freq returns '60' unless the normalized SeriesDescription
\* contains 'hz', and then the maximal run of digits before the first 'hz';
\* the returned value is always a non-empty string of digits ('60' when 'hz'
\* has no digits before it).
C8_FreqIsDigits ==
    pc = "freq_done" => (freq = DescribedFreq(mag_dcm) /\ IsNumeric(freq))

----------------------------------------------------------------------------
(* os_utils: os_clean_path, num_path_elems, path_split and                 *)
(* find_existing_composite_path, on POSIX (os.name != 'nt').  A path is a  *)
(* string; os.path.normpath, split, dirname and join are posixpath's.      *)

STR_None == <<"N","o","n","e">>
STR_dot  == <<".">>
STR_dotdot == <<".", ".">>

\* str.rfind(c) + 1: the position of the last c in s, or 0
RFind(s, c) ==
    IF \E n \in DOMAIN s : s[n] = c
    THEN CHOOSE n \in DOMAIN s : s[n] = c /\ \A m \in (n + 1)..Len(s) : s[m] # c
    ELSE 0

AllSlashes(s) == \A n \in DOMAIN s : s[n] = "/"

\* s.rstrip('/')
RECURSIVE RStripSlash(_)
RStripSlash(s) ==
    IF s # <<>> /\ s[Len(s)] = "/" THEN RStripSlash(SubSeq(s, 1, Len(s) - 1)) ELSE s

\* posixpath.split: the pair <<head, tail>>
os_path_split(p) ==
    LET n     == RFind(p, "/")
        head0 == SubSeq(p, 1, n)
        tail  == SubSeq(p, n + 1, Len(p))
        head  == IF head0 # <<>> /\ ~AllSlashes(head0) THEN RStripSlash(head0) ELSE head0
    IN  <<head, tail>>

\* posixpath.dirname
os_path_dirname(p) == os_path_split(p)[1]

\* posixpath.join of two paths
os_path_join(a, b) ==
    IF b # <<>> /\ b[1] = "/" THEN b
    ELSE IF a = <<>> \/ a[Len(a)] = "/" THEN a \o b
    ELSE a \o <<"/">> \o b

\* str.split('/'): the components between the separators
RECURSIVE SplitSlash(_)
SplitSlash(p) ==
    IF \E n \in DOMAIN p : p[n] = "/"
    THEN LET n == CHOOSE n \in DOMAIN p : p[n] = "/" /\ \A m \in 1..(n - 1) : p[m] # "/"
         IN  <<SubSeq(p, 1, n - 1)>> \o SplitSlash(SubSeq(p, n + 1, Len(p)))
    ELSE <<p>>

\* '/'.join(comps)
RECURSIVE JoinSlash(_)
JoinSlash(comps) ==
    IF comps = <<>> THEN <<>>
    ELSE IF Len(comps) = 1 THEN comps[1]
    ELSE comps[1] \o <<"/">> \o JoinSlash(Tail(comps))

\* posixpath.normpath: the loop over the components
RECURSIVE NormComps(_, _, _)
NormComps(comps, new_comps, initial_slashes) ==
    IF comps = <<>> THEN new_comps
    ELSE LET comp == Head(comps)
         IN  IF comp = <<>> \/ comp = STR_dot
             THEN NormComps(Tail(comps), new_comps, initial_slashes)
             ELSE IF \/ comp # STR_dotdot
                     \/ (initial_slashes = 0 /\ new_comps = <<>>)
                     \/ (new_comps # <<>> /\ new_comps[Len(new_comps)] = STR_dotdot)
             THEN NormComps(Tail(comps), Append(new_comps, comp), initial_slashes)
             ELSE IF new_comps # <<>>
             THEN NormComps(Tail(comps), SubSeq(new_comps, 1, Len(new_comps) - 1), initial_slashes)
             ELSE NormComps(Tail(comps), new_comps, initial_slashes)

\* posixpath.normpath
os_path_normpath(p) ==
    IF p = <<>> THEN STR_dot
    ELSE LET initial_slashes ==
                 IF p[1] # "/" THEN 0
                 ELSE IF Len(p) >= 2 /\ p[2] = "/" /\ ~(Len(p) >= 3 /\ p[3] = "/") THEN 2
                 ELSE 1
             body == JoinSlash(NormComps(SplitSlash(p), <<>>, initial_slashes))
             out  == [n \in 1..initial_slashes |-> "/"] \o body
         IN  IF out = <<>> THEN STR_dot ELSE out

\* os_clean_path, for a path without backslashes (line 51 is false)
os_clean_path(path) ==
    LET p == os_path_normpath(path)
    IN  IF Len(p) >= 2 /\ p[1] = "/" /\ p[2] = "/" THEN Tail(p) ELSE p

\* num_path_elems lines 66-70, on a path already cleaned
RECURSIVE CountElems(_)
CountElems(p) ==
    IF p = os_path_dirname(p) THEN 0 ELSE 1 + CountElems(os_path_dirname(p))

\* num_path_elems with clean_path_first=True
num_path_elems(path) == CountElems(os_clean_path(path))

\* path_split lines 84-86: the loop for i in range(1, n_elem), todo iterations left
RECURSIVE SplitLoop(_, _, _)
SplitLoop(head, tail, todo) ==
    IF todo <= 0 THEN <<head, tail>>
    ELSE LET sp == os_path_split(head)
         IN  SplitLoop(sp[1], os_path_join(sp[2], tail), todo - 1)

\* path_split with clean_path_first=False: lines 81-87 on the path as given
path_split_raw(path, n_elem) ==
    IF n_elem < 1 THEN <<path, <<>>>>
    ELSE LET sp == os_path_split(path)
         IN  SplitLoop(sp[1], sp[2], n_elem - 1)

\* a variant of path_split without the n_elem<1 return of lines 81-82
path_split_no_guard(path, n_elem) ==
    LET sp == os_path_split(os_clean_path(path))
    IN  SplitLoop(sp[1], sp[2], n_elem - 1)

\* a variant of path_split whose loop runs once more
path_split_one_more(path, n_elem) ==
    LET p == os_clean_path(path)
    IN  IF n_elem < 1 THEN <<p, <<>>>>
        ELSE LET sp == os_path_split(p)
             IN  SplitLoop(sp[1], sp[2], n_elem)

\* path_split with clean_path_first=True: the pair <<head, tail>>
path_split(path, n_elem) ==
    LET p == os_clean_path(path)
    IN  IF n_elem < 1 THEN <<p, <<>>>>
        ELSE LET sp == os_path_split(p)
             IN  SplitLoop(sp[1], sp[2], n_elem - 1)

\* a variant of line 105 that tests the candidate's directory
Exists_parent(p) == os_path_dirname(p) \in disk

\* line 105: os.path.exists
Exists(p) == p \in disk

\* a variant of lines 100-104 whose outer loop takes the tails of path_2
\* longest first
candidate_path_longest_tail_first ==
    os_path_join(path_split(path_1, i)[1],
                 path_split(path_2, num_path_elems(path_2) + 1 - j)[2])

\* lines 101-104: the candidate of the iteration (j, i)
candidate_path == os_path_join(path_split(path_1, i)[1], path_split(path_2, j)[2])

\* lines 96-97 and the entry to the loops
FindStart ==
    /\ pc = "find_start"
    /\ path_1' = os_clean_path(path_1)
    /\ path_2' = os_clean_path(path_2)
    /\ j' = 1
    /\ i' = 1
    /\ pc' = "find"
    /\ UNCHANGED <<disk, probed, found, scanVars, runVars, freqVars, laterVars>>

\* lines 100-106: one iteration of the inner loop
FindProbe ==
    /\ pc = "find"
    /\ j <= num_path_elems(path_2)
    /\ i <= num_path_elems(path_1)
    /\ probed' = Append(probed, candidate_path)
    /\ IF Exists(candidate_path)
       THEN /\ found' = candidate_path
            /\ pc' = "find_done"
            /\ UNCHANGED <<j, i>>
       ELSE /\ IF i < num_path_elems(path_1)
               THEN i' = i + 1 /\ j' = j
               ELSE i' = 1 /\ j' = j + 1
            /\ UNCHANGED <<found, pc>>
    /\ UNCHANGED <<path_1, path_2, disk, scanVars, runVars, freqVars, laterVars>>

\* lines 108-110: the loops are exhausted
FindNone ==
    /\ pc = "find"
    /\ (j > num_path_elems(path_2) \/ num_path_elems(path_1) = 0)
    /\ found' = STR_None
    /\ pc' = "find_done"
    /\ UNCHANGED <<path_1, path_2, disk, j, i, probed, scanVars, runVars, freqVars, laterVars>>

\* segment names of the paths given to find_existing_composite_path
SegmentNames == {"a", "b"}

SegmentLists == UNION { [1..n -> SegmentNames] : n \in 0..MaxDepth }

\* the absolute path of a list of one-character segments
RECURSIVE Render(_)
Render(segs) ==
    IF segs = <<>> THEN <<"/">>
    ELSE IF Len(segs) = 1 THEN <<"/", segs[1]>>
    ELSE Render(SubSeq(segs, 1, Len(segs) - 1)) \o <<"/", segs[Len(segs)]>>

CleanPaths == { Render(segs) : segs \in SegmentLists }

\* the arguments: clean absolute paths, and the same with a trailing separator
ArgumentPaths == CleanPaths \cup { p \o <<"/">> : p \in CleanPaths }

\* the prefixes of a clean absolute path: the path and its ancestors
Ancestors(p) ==
    { Render(SubSeq(SelectSeq(p, LAMBDA c : c # "/"), 1, n)) :
        n \in 0..Len(SelectSeq(p, LAMBDA c : c # "/")) }

\* a disk holds the root and, with a path, its ancestors
Disks == { UNION { Ancestors(p) : p \in ps } \cup {<<"/">>} :
             ps \in { qs \in SUBSET CleanPaths : Cardinality(qs) <= 2 } }

P_abc == <<"/","a","/","b","/","c">>
P_xyc == <<"/","x","/","y","/","c">>

\* the call find_existing_composite_path('/a/b/c', '/x/y/c')
ExampleDisks ==
    { Ancestors(P_abc), Ancestors(P_abc) \cup {<<"/","c">>}, {<<"/">>, <<"/","c">>} }

InitPath ==
    /\ pc = "find_start"
    /\ \/ path_1 \in ArgumentPaths /\ path_2 \in ArgumentPaths /\ disk \in Disks
       \/ path_1 = P_abc /\ path_2 = P_xyc /\ disk \in ExampleDisks
    /\ j = 0 /\ i = 0 /\ probed = <<>> /\ found = <<>>
    /\ IdleScan /\ IdleRun /\ IdleFreq /\ IdleLater

NextPath ==
    \/ FindStart
    \/ FindProbe
    \/ FindNone

SpecPath == InitPath /\ [][NextPath]_vars

----------------------------------------------------------------------------
(* Properties of find_existing_composite_path, checked under SpecPath.     *)
(* They are stated on the segments of the cleaned arguments.               *)

\* the segments of a clean absolute path whose segment names are one character
Segments(p) == SelectSeq(p, LAMBDA c : c # "/")

\* the candidate made of the first h segments of pathA and the last t of pathB
Composite(h, t) ==
    LET A == Segments(path_1)
        B == Segments(path_2)
    IN  Render(SubSeq(A, 1, h) \o SubSeq(B, Len(B) - t + 1, Len(B)))

\* the candidates in the order of the loops: tail length t of pathB ascending
\* in the outer loop, number r of trailing segments removed from pathA
\* ascending in the inner loop (head length descending)
LoopOrder ==
    LET nA == Len(Segments(path_1))
        nB == Len(Segments(path_2))
    IN  [m \in 1..(nA * nB) |-> Composite(nA - (((m - 1) % nA) + 1), ((m - 1) \div nA) + 1)]

\* the candidates with the inner loop over pathA head lengths ascending
HeadAscendingOrder ==
    LET nA == Len(Segments(path_1))
        nB == Len(Segments(path_2))
    IN  [m \in 1..(nA * nB) |-> Composite((m - 1) % nA, ((m - 1) \div nA) + 1)]

FirstExistingIndex(order) ==
    IF \E m \in DOMAIN order : order[m] \in disk
    THEN CHOOSE m \in DOMAIN order :
             order[m] \in disk /\ \A n \in 1..(m - 1) : order[n] \notin disk
    ELSE 0

FirstExisting(order) ==
    IF FirstExistingIndex(order) = 0 THEN STR_None ELSE order[FirstExistingIndex(order)]

TriedUpToFirstExisting(order) ==
    IF FirstExistingIndex(order) = 0 THEN order
    ELSE SubSeq(order, 1, FirstExistingIndex(order))

ExampleHolds ==
    (path_1 = P_abc /\ path_2 = P_xyc /\ P_abc \in disk) => found = P_abc

\* C10 as stated: the returned path is the first existing candidate when the
\* candidates are ordered by pathB tail length ascending and then by pathA
\* head length ascending; '/a/b/c' and '/x/y/c' with /a/b/c on disk give '/a/b/c'.
C10_FirstInHeadAscendingOrder ==
    pc = "find_done" => (found = FirstExisting(HeadAscendingOrder) /\ ExampleHolds)

\* C10 amended: the candidates are tried with pathB tail lengths ascending in
\* the outer loop and, in the inner loop, with 1, 2, .. trailing segments
\* removed from pathA (pathA head lengths descending, the whole of pathA never
\* being a head); the first candidate in that order that exists is returned,
\* and 'None' when none exists; '/a/b/c' and '/x/y/c' with /a/b/c on disk give
\* '/a/b/c'.
C10_FirstInLoopOrder ==
    pc = "find_done" =>
        /\ probed = TriedUpToFirstExisting(LoopOrder)
        /\ found = FirstExisting(LoopOrder)
        /\ ExampleHolds

C10_Witness ==
    /\ pc = "find_done"
    /\ path_1 = P_abc
    /\ path_2 = P_xyc
    /\ disk = Ancestors(P_abc)
    /\ probed = <<P_abc>>
    /\ found = P_abc

\* the tail lengths t of pathB with which p is a candidate of the search
TailsOf(p) ==
    { t \in 1..Len(Segments(path_2)) :
        \E h \in 0..(Len(Segments(path_1)) - 1) : Composite(h, t) = p }

\* the candidates of the search that exist on disk
ExistingCandidates == { p \in disk : TailsOf(p) # {} }

\* q can only be made with a longer tail of pathB than any that makes p
UsesLongerTail(q, p) == \A tq \in TailsOf(q), tp \in TailsOf(p) : tq > tp

\* C11 as stated: the returned path retains as much of pathB's suffix as
\* possible: no other existing candidate uses a longer tail of pathB than
\* the returned path.
C11_LongestTailReturned ==
    (pc = "find_done" /\ found # STR_None) =>
        ~\E q \in ExistingCandidates : q # found /\ UsesLongerTail(q, found)

\* C11 amended: the returned path is an existing candidate that retains as
\* little of pathB's suffix as possible: no existing candidate uses a shorter
\* tail of pathB than the shortest tail that makes the returned path.
C11_ShortestTailReturned ==
    (pc = "find_done" /\ found # STR_None) =>
        /\ found \in ExistingCandidates
        /\ \A q \in ExistingCandidates : \A tq \in TailsOf(q) :
               \E tf \in TailsOf(found) : tf <= tq

\* several candidates exist, one of them only with a longer tail of pathB
C11_Witness ==
    /\ pc = "find_done"
    /\ found # STR_None
    /\ \E q \in ExistingCandidates : q # found /\ UsesLongerTail(q, found)

\* C12 as stated: 'None' is returned exactly when no head of pathA obtained
\* by removing 0..k trailing segments, joined with a tail of pathB, exists on
\* disk; any other result is an existing path.
C12_NoneIffNoHeadFromZero ==
    pc = "find_done" =>
        /\ found = STR_None <=>
               ~\E h \in 0..Len(Segments(path_1)), t \in 1..Len(Segments(path_2)) :
                    Composite(h, t) \in disk
        /\ found # STR_None => found \in disk

\* C12 amended: 'None' is returned exactly when no head of pathA obtained by
\* removing 1..k trailing segments (at least one: the whole of pathA is never
\* a head), joined with a tail of pathB, exists on disk; any other result is
\* an existing path.
C12_NoneIffNoCandidate ==
    pc = "find_done" =>
        /\ found = STR_None <=>
               ~\E h \in 0..(Len(Segments(path_1)) - 1), t \in 1..Len(Segments(path_2)) :
                    Composite(h, t) \in disk
        /\ found # STR_None => found \in disk

\* every candidate was tried and none exists, while the whole of pathA joined
\* with the last segment of pathB does exist
C12_Witness ==
    /\ pc = "find_done"
    /\ found = STR_None
    /\ Len(probed) >= 2
    /\ Composite(Len(Segments(path_1)), 1) \in disk

----------------------------------------------------------------------------
(* path_split as a function of its arguments.                              *)

\* the characters of the paths given to path_split
PathChars == {"/", "a", "."}

\* length of a path given to path_split
MaxPathLen == 5

SplitPaths == UNION { [1..n -> PathChars] : n \in 0..MaxPathLen }

\* the values of n_elem: below 1, and up to one more than the deepest path
SplitCounts == (0 - 1)..(MaxDepth + 1)

\* lines 79-87: the call path_split(path, n_elem, clean_path_first)
SplitCall ==
    /\ pc = "split"
    /\ head_tail' = IF clean_path_first THEN path_split(split_path, split_n)
                                        ELSE path_split_raw(split_path, split_n)
    /\ pc' = "split_done"
    /\ UNCHANGED <<split_path, split_n, clean_path_first,
                   scanVars, runVars, freqVars, pathVars, lastVars, digestVars, seriesVars,
                   sliceVars>>

InitSplit ==
    /\ pc = "split"
    /\ split_path \in SplitPaths
    /\ split_n \in SplitCounts
    /\ clean_path_first \in BOOLEAN
    /\ head_tail = <<>>
    /\ IdleScan /\ IdleRun /\ IdleFreq /\ IdlePath /\ IdleLast /\ IdleDigest /\ IdleSeries /\ IdleSlice

NextSplit == SplitCall

SpecSplit == InitSplit /\ [][NextSplit]_vars

\* the segments of a path: its non-empty components
PathSegments(p) == SelectSeq(SplitSlash(p), LAMBDA c : c # <<>>)

\* the last n elements of a sequence
LastElems(s, n) == SubSeq(s, Len(s) - n + 1, Len(s))

\* C13: for 1 <= n <= num_path_elems(path), path_split(path, n) returns
\* (head, tail) with join(head, tail) = os_clean_path(path),
\* num_path_elems(head) + n = num_path_elems(path), and tail made of exactly
\* the last n segments of the path.
C13_SplitJoinsAndCounts ==
    (/\ pc = "split_done"
     /\ clean_path_first
     /\ 1 <= split_n
     /\ split_n <= num_path_elems(split_path)) =>
        /\ os_path_join(head_tail[1], head_tail[2]) = os_clean_path(split_path)
        /\ num_path_elems(head_tail[1]) + split_n = num_path_elems(split_path)
        /\ PathSegments(head_tail[2])
               = LastElems(PathSegments(os_clean_path(split_path)), split_n)

\* p is in the form os_clean_path returns: no empty or '.' component, '..'
\* only at the start of a relative path, no trailing separator
IsNormalized(p) ==
    /\ p # <<>>
    /\ \/ p = <<"/">>
       \/ p = STR_dot
       \/ LET c    == SplitSlash(p)
              body == IF p[1] = "/" THEN Tail(c) ELSE c
          IN  /\ body # <<>>
              /\ \A n \in DOMAIN body :
                    /\ body[n] # <<>>
                    /\ body[n] # STR_dot
                    /\ body[n] = STR_dotdot =>
                          (p[1] # "/" /\ \A m \in 1..(n - 1) : body[m] = STR_dotdot)

\* C14 as stated: path_split(path, n) with n < 1 returns (path, ''): the head
\* is the input path unchanged and the tail is the empty string, for any path.
C14_HeadIsInputPath ==
    (pc = "split_done" /\ split_n < 1) => head_tail = <<split_path, <<>>>>

\* C14 amended: path_split(path, n) with n < 1 returns (p, '') where p is
\* os_clean_path(path) when clean_path_first is True (the default) and the
\* input path when it is False: the head is the normalized path, which is the
\* input unchanged exactly when the input is already normalized.
C14_HeadIsCleanedPath ==
    (pc = "split_done" /\ split_n < 1) =>
        /\ head_tail[2] = <<>>
        /\ clean_path_first =>
               /\ head_tail[1] = os_clean_path(split_path)
               /\ IsNormalized(head_tail[1])
               /\ head_tail[1] = split_path <=> IsNormalized(split_path)
        /\ ~clean_path_first => head_tail[1] = split_path

\* path_split('a//a', 0) returned ('a/a', '')
C14_Witness ==
    /\ pc = "split_done"
    /\ split_n = 0
    /\ clean_path_first
    /\ split_path = <<"a", "/", "/", "a">>
    /\ head_tail = << <<"a", "/", "a">>, <<>> >>

----------------------------------------------------------------------------
(* dicom_and_file_utils.parse_digest.  The dict content is a sequence of   *)
(* <<key, value>> pairs with distinct keys, in insertion order, as a       *)
(* Python dict keeps them.                                                 *)

\* str.splitlines() on a text whose only line boundary is '\n': a trailing
\* boundary ends the last line and starts no new one
RECURSIVE SplitLines(_)
SplitLines(s) ==
    IF s = <<>> THEN <<>>
    ELSE IF \E n \in DOMAIN s : s[n] = "\n"
    THEN LET n == CHOOSE n \in DOMAIN s : s[n] = "\n" /\ \A m \in 1..(n - 1) : s[m] # "\n"
         IN  <<SubSeq(s, 1, n - 1)>> \o SplitLines(SubSeq(s, n + 1, Len(s)))
    ELSE <<s>>

\* s.split(c, maxsplit=1) for a one-character c: one or two parts
SplitOnce(s, c) ==
    IF \E n \in DOMAIN s : s[n] = c
    THEN LET n == CHOOSE n \in DOMAIN s : s[n] = c /\ \A m \in 1..(n - 1) : s[m] # c
         IN  <<SubSeq(s, 1, n - 1), SubSeq(s, n + 1, Len(s))>>
    ELSE <<s>>

\* lines 375-376: filter(None, lines), then the lines equal to ' ' removed
FilterLines(ls) == SelectSeq(SelectSeq(ls, LAMBDA x : x # <<>>), LAMBDA x : x # <<" ">>)

\* a variant of content[key]=val that keeps the value a key already has
DictSet_keep_first(d, key, val) ==
    IF \E n \in DOMAIN d : d[n][1] = key THEN d ELSE Append(d, <<key, val>>)

\* line 387: content[key]=val
DictSet(d, key, val) ==
    IF \E n \in DOMAIN d : d[n][1] = key
    THEN [n \in DOMAIN d |-> IF d[n][1] = key THEN <<key, val>> ELSE d[n]]
    ELSE Append(d, <<key, val>>)

\* a variant of lines 366-376 that starts from the dict of the call before
ReadDigest_keeping_content ==
    /\ pc = "parse"
    /\ comments' = <<>>
    /\ lines' = FilterLines(SplitLines(digest_text))
    /\ pc' = "scrape"
    /\ UNCHANGED <<digest_text, content, parsed, scanVars, runVars, freqVars, pathVars, lastVars, splitVars, seriesVars,
                   sliceVars>>

\* lines 366-376: the dict and the set are created and the file is read
ReadDigest ==
    /\ pc = "parse"
    /\ content' = <<>>
    /\ comments' = <<>>
    /\ lines' = FilterLines(SplitLines(digest_text))
    /\ pc' = "scrape"
    /\ UNCHANGED <<digest_text, parsed, scanVars, runVars, freqVars, pathVars, lastVars, splitVars, seriesVars,
                   sliceVars>>

\* lines 379-387: one iteration of the loop over the lines
ScrapeLine ==
    /\ pc = "scrape"
    /\ lines # <<>>
    /\ LET mystr  == SplitOnce(Head(lines), "%")
           mystr2 == SplitOnce(mystr[1], "=")
       IN  /\ comments' = IF Len(mystr) > 1 THEN Append(comments, mystr[2]) ELSE comments
           /\ content' = IF Len(mystr2) > 1
                          THEN DictSet(content, Strip(mystr2[1]), Strip(mystr2[2]))
                          ELSE content
    /\ lines' = Tail(lines)
    /\ UNCHANGED <<pc, digest_text, parsed, scanVars, runVars, freqVars, pathVars, lastVars, splitVars, seriesVars,
                   sliceVars>>

\* line 390: return (content,comments)
ParseReturn ==
    /\ pc = "scrape"
    /\ lines = <<>>
    /\ parsed' = Append(parsed, <<digest_text, content>>)
    /\ pc' = "parse_done"
    /\ UNCHANGED <<digest_text, lines, content, comments, scanVars, runVars, freqVars,
                   pathVars, lastVars, splitVars, seriesVars, sliceVars>>

\* number of lines of a digest file
MaxLines == 2
\* number of calls of parse_digest in a row
MaxCalls == 3

\* the lines met in the digest files
DigestLines ==
    { <<"a", " ", "=", " ", "1", " ", "%", " ", "n", "o", "t", "e">>,
      <<"b", "=", "2">>,
      <<>>,
      <<"b", "a", "d", "l", "i", "n", "e">>,
      <<" ">>,
      <<"a", "=", "3">>,
      <<"a", "%", "=", "4">>,
      <<"b", " ", "=", " ", "x", "=", "y">>,
      <<" ", " ">>,
      <<" ", "=">>,
      <<"%", "b", "=", "5">>,
      <<"a", " ", "=">> }

\* the text of a file: each line followed by a line boundary
RECURSIVE JoinLines(_)
JoinLines(ls) ==
    IF ls = <<>> THEN <<>> ELSE Head(ls) \o <<"\n">> \o JoinLines(Tail(ls))

\* the file of the example: 'a = 1 % note', 'b=2', '', 'badline'
ExampleText ==
    JoinLines(<< <<"a", " ", "=", " ", "1", " ", "%", " ", "n", "o", "t", "e">>,
                 <<"b", "=", "2">>, <<>>,
                 <<"b", "a", "d", "l", "i", "n", "e">> >>)

\* the digest files: up to MaxLines lines, the last one with or without its
\* line boundary
DigestTexts ==
    LET full == { JoinLines(ls) : ls \in UNION { [1..n -> DigestLines] : n \in 0..MaxLines } }
    IN  full \cup { SubSeq(x, 1, Len(x) - 1) : x \in full \ {<<>>} } \cup {ExampleText}

\* the files parsed after the first one, besides those already parsed
OtherTexts == { <<"a", "=", "3", "\n">>, ExampleText }

\* the caller parses the next file
ParseCall ==
    /\ pc = "parse_done"
    /\ Len(parsed) < MaxCalls
    /\ digest_text' \in { parsed[n][1] : n \in DOMAIN parsed } \cup OtherTexts
    /\ pc' = "parse"
    /\ UNCHANGED <<lines, content, comments, parsed, scanVars, runVars, freqVars,
                   pathVars, lastVars, splitVars, seriesVars, sliceVars>>

InitDigest ==
    /\ pc = "parse"
    /\ digest_text \in DigestTexts
    /\ lines = <<>> /\ content = <<>> /\ comments = <<>> /\ parsed = <<>>
    /\ IdleScan /\ IdleRun /\ IdleFreq /\ IdlePath /\ IdleLast /\ IdleSplit /\ IdleSeries /\ IdleSlice

NextDigest ==
    \/ ReadDigest
    \/ ScrapeLine
    \/ ParseReturn
    \/ ParseCall

SpecDigest == InitDigest /\ [][NextDigest]_vars

\* the position of the first c in s, or Len(s) + 1
FirstIndex(s, c) ==
    IF \E n \in DOMAIN s : s[n] = c
    THEN CHOOSE n \in DOMAIN s : s[n] = c /\ \A m \in 1..(n - 1) : s[m] # c
    ELSE Len(s) + 1

\* the text of a line before its first '%'
BeforeComment(l) == SubSeq(l, 1, FirstIndex(l, "%") - 1)

\* the line has an '=' before its first '%'
HasKey(l) == FirstIndex(l, "=") < FirstIndex(l, "%")

\* the trimmed text left of the first '=' and the trimmed text between it and
\* the first '%'
KeyOf(l) == Strip(SubSeq(l, 1, FirstIndex(l, "=") - 1))
ValueOf(l) == Strip(SubSeq(BeforeComment(l), FirstIndex(l, "=") + 1, Len(BeforeComment(l))))

\* a dict as the set of its <<key, value>> pairs
Items(d) == { d[n] : n \in DOMAIN d }

\* the mapping C15 describes for a file: a key for every line with an '='
\* before its first '%', its value that of the last such line with that key
DescribedItems(text) ==
    LET ls == SplitLines(text)
    IN  { <<KeyOf(ls[n]), ValueOf(ls[n])>> :
            n \in { n \in DOMAIN ls :
                      /\ HasKey(ls[n])
                      /\ \A m \in (n + 1)..Len(ls) :
                            HasKey(ls[m]) => KeyOf(ls[m]) # KeyOf(ls[n]) } }

\* C15: parse_digest gives a key for every line that has an '=' before its
\* first '%' (trimmed left side the key, trimmed right side up to the '%' the
\* value, a later line with the same key overwriting); a line without such
\* an '=' gives no key; 'a = 1 % note', 'b=2', '', 'badline' gives
\* {a: '1', b: '2'}.
C15_ContentAsDescribed ==
    pc = "parse_done" =>
        /\ Items(content) = DescribedItems(digest_text)
        /\ \A m, n \in DOMAIN content : content[m][1] = content[n][1] => m = n
        /\ digest_text = ExampleText =>
               content = << <<<<"a">>, <<"1">>>>, <<<<"b">>, <<"2">>>> >>

\* a file with a comment, an overwritten key and a line without '=' was parsed
C15_Witness ==
    /\ pc = "parse_done"
    /\ digest_text = JoinLines(<< <<"a", " ", "=", " ", "1", " ", "%", " ", "n", "o", "t", "e">>,
                                  <<"a", "=", "3">> >>)
    /\ content = << <<<<"a">>, <<"3">>>> >>

\* C16: parse_digest keeps no state between calls: two calls on the same
\* unchanged file return equal content mappings, whatever files were parsed
\* before or between them.
C16_SameFileSameContent ==
    \A m, n \in DOMAIN parsed :
        parsed[m][1] = parsed[n][1] => Items(parsed[m][2]) = Items(parsed[n][2])

\* a file was parsed, then another file with other values for its keys, then
\* the first file again
C16_Witness ==
    /\ Len(parsed) = 3
    /\ parsed[1][1] = parsed[3][1]
    /\ parsed[1][1] # parsed[2][1]
    /\ parsed[1][2] # <<>>
    /\ \E x \in Items(parsed[2][2]) : x \notin Items(parsed[1][2])

----------------------------------------------------------------------------
(* dicom_and_file_utils.get_alc_digest_series                              *)

STR_alc == <<".", "a", "l", "c">>

\* s.split(c) for a one-character c
RECURSIVE SplitChar(_, _)
SplitChar(s, c) ==
    IF \E n \in DOMAIN s : s[n] = c
    THEN LET n == CHOOSE n \in DOMAIN s : s[n] = c /\ \A m \in 1..(n - 1) : s[m] # c
         IN  <<SubSeq(s, 1, n - 1)>> \o SplitChar(SubSeq(s, n + 1, Len(s)), c)
    ELSE <<s>>

\* c.join(parts) for a one-character c
RECURSIVE JoinChar(_, _)
JoinChar(parts, c) ==
    IF parts = <<>> THEN <<>>
    ELSE IF Len(parts) = 1 THEN parts[1]
    ELSE parts[1] \o <<c>> \o JoinChar(Tail(parts), c)

\* parts[n:] for n >= 0
SliceFrom(parts, n) == SubSeq(parts, n + 1, Len(parts))

\* os.path.basename
os_path_basename(p) == os_path_split(p)[2]

\* a variant of line 357 that keeps the components from the fourth on
get_alc_digest_series_from_fourth(dp) ==
    LET file == os_path_basename(os_clean_path(dp))
    IN  IF ~Contains(file, STR_alc) THEN <<>>
        ELSE SplitFirst(JoinChar(SliceFrom(SplitChar(file, "_"), 3), "_"), STR_alc)

\* lines 353-358: the returned string
get_alc_digest_series(dp) ==
    LET file == os_path_basename(os_clean_path(dp))
    IN  IF ~Contains(file, STR_alc) THEN <<>>
        ELSE SplitFirst(JoinChar(SliceFrom(SplitChar(file, "_"), 4), "_"), STR_alc)

\* lines 353-358: the call, with the warning of line 355
SeriesCall ==
    /\ pc = "series"
    /\ series' = get_alc_digest_series(digest_path)
    /\ warned' = ~Contains(os_path_basename(os_clean_path(digest_path)), STR_alc)
    /\ pc' = "series_done"
    /\ UNCHANGED <<digest_path, scanVars, runVars, freqVars, pathVars, lastVars, splitVars, digestVars,
                   sliceVars>>

\* number of pieces a digest path is made of
MaxPieces == 6

\* the pieces of the digest paths
PathPieces == { <<"a">>, <<"_">>, STR_alc, <<"/">> }

RECURSIVE Concat(_)
Concat(ps) == IF ps = <<>> THEN <<>> ELSE Head(ps) \o Concat(Tail(ps))

\* a digest named as the pipeline names them: four components, then the series
ExampleDigestPath ==
    <<"/", "a", "/", "a", "_", "a", "_", "a", "_", "a", "_", "a", "_", "a", ".", "a", "l", "c", "2">>

DigestPaths ==
    { Concat(ps) : ps \in UNION { [1..n -> PathPieces] : n \in 0..MaxPieces } }
    \cup {ExampleDigestPath}

InitSeries ==
    /\ pc = "series"
    /\ digest_path \in DigestPaths
    /\ series = <<>>
    /\ warned = FALSE
    /\ IdleScan /\ IdleRun /\ IdleFreq /\ IdlePath /\ IdleLast /\ IdleSplit /\ IdleDigest /\ IdleSlice

NextSeries == SeriesCall

SpecSeries == InitSeries /\ [][NextSeries]_vars

\* the file name of the digest path
DigestFileName == os_path_basename(os_clean_path(digest_path))

\* the positions of the underscores of s
Underscores(s) == { n \in DOMAIN s : s[n] = "_" }

\* the position of the fourth underscore of s, when it has four
FourthUnderscore(s) ==
    CHOOSE n \in Underscores(s) : Cardinality({ m \in Underscores(s) : m < n }) = 3

\* the text of s after its first four underscore-separated components
AfterFourComponents(s) ==
    IF Cardinality(Underscores(s)) < 4 THEN <<>>
    ELSE SubSeq(s, FourthUnderscore(s) + 1, Len(s))

\* r is s cut at its first '.alc': a prefix of s without the marker that is
\* either all of s or followed in s by the marker
CutAtMarker(r, s) ==
    /\ Len(r) <= Len(s)
    /\ r = SubSeq(s, 1, Len(r))
    /\ ~Contains(r, STR_alc)
    /\ r = s \/ SubSeq(s, Len(r) + 1, Len(r) + 4) = STR_alc

\* C17: get_alc_digest_series returns '' with a warning when the file name
\* does not contain '.alc'; otherwise it returns the text after the first
\* four underscore-separated components of the file name, cut at the '.alc'
\* marker, and so nothing of the first four components.
C17_SeriesAfterFourComponents ==
    pc = "series_done" =>
        IF ~Contains(DigestFileName, STR_alc)
        THEN series = <<>> /\ warned
        ELSE /\ ~warned
             /\ CutAtMarker(series, AfterFourComponents(DigestFileName))

\* '/a/a_a_a_a_a_a.alc2' gave 'a_a'
C17_Witness ==
    /\ pc = "series_done"
    /\ digest_path = ExampleDigestPath
    /\ series = <<"a", "_", "a">>
    /\ ~warned

----------------------------------------------------------------------------
(* mmdi3d_utils.get_mmdi3d_slice_data.                                     *)
(* The file system fs is a record: kind maps the paths that exist to       *)
(* "file" or "dir"; dcm maps the files pydicom can read to their header;   *)
(* folders and files map a directory to the names dir_folder_list and      *)
(* dir_file_list give, in listing order.  None is the empty sequence and a *)
(* SliceLocation v is <<v>>: a header without the tag has SliceLocation    *)
(* <<>>.  The local mag_series is <<>> until it is bound and <<s>> after.  *)

STR_alc2 == <<".", "a", "l", "c", "2">>
STR_default == <<"d", "e", "f", "a", "u", "l", "t">>
STR_3dmmdi_dir == <<"3", "d", "m", "m", "d", "i">>
STR_roi_slice == <<"m", "r", "e", ".", "r", "o", "i", ".", "s", "l", "i", "c", "e", ".">>
STR_mag_slice == <<"m", "r", "e", ".", "m", "a", "g", ".", "s", "l", "i", "c", "e", ".">>
STR_mag_seriesNumber == <<"m", "r", "e", ".", "m", "a", "g", ".", "s", "e", "r", "i", "e", "s", "N", "u", "m", "b", "e", "r">>

\* CONTRASTS, lines 9-13: the contrasts with a directory code, in dict order
CONTRASTS == << <<"storage", <<"2", "6">>>>, <<"loss", <<"2", "7">>>>,
               <<"attenuation", <<"2", "8">>>>,
               <<"damping_ratio", <<>>>>, <<"volumetric_strain", <<>>>> >>

\* s.startswith(pre)
StartsWith(s, pre) == Len(pre) <= Len(s) /\ SubSeq(s, 1, Len(pre)) = pre

\* s.split(sep)[-1] for a separator that cannot overlap itself
SplitLast(s, sep) ==
    IF Contains(s, sep)
    THEN LET n == CHOOSE n \in 0..(Len(s) - Len(sep)) :
                      /\ SubSeq(s, n + 1, n + Len(sep)) = sep
                      /\ \A m \in (n + 1)..(Len(s) - Len(sep)) :
                            SubSeq(s, m + 1, m + Len(sep)) # sep
         IN  SubSeq(s, n + Len(sep) + 1, Len(s))
    ELSE s

\* os.path.exists, os.path.isfile, os.path.isdir
PathExists(p) == p \in DOMAIN fs.kind
IsFile(p) == PathExists(p) /\ fs.kind[p] = "file"
IsDir(p) == PathExists(p) /\ fs.kind[p] = "dir"

\* dir_folder_list(dir) and dir_file_list(dir, include_dir=True)
dir_folder_list(dir) == IF dir \in DOMAIN fs.folders THEN fs.folders[dir] ELSE <<>>
dir_file_list(dir) ==
    IF dir \in DOMAIN fs.files
    THEN [n \in DOMAIN fs.files[dir] |-> os_path_join(dir, fs.files[dir][n])]
    ELSE <<>>

\* read_file(path) raises
ReadFails(p) == p \notin DOMAIN fs.dcm

\* dcm.get('SliceLocation', None) of the file at p
GetSliceLocation(p) == fs.dcm[p].SliceLocation

\* `if slice_location:` for None or a number
Truthy(loc) == loc # <<>> /\ loc[1] # 0

\* lines 278-284: the default inversion_3d_dir found, or 'default'
DefaultInversionDir ==
    LET candidate_inversion_3d_dirs ==
            << os_path_join(path_split(alc2_digest, 3)[1], STR_3dmmdi_dir),
               os_path_join(path_split(alc2_digest, 2)[1], STR_3dmmdi_dir) >>
        ok == { n \in 1..2 : PathExists(candidate_inversion_3d_dirs[n])
                               /\ IsDir(candidate_inversion_3d_dirs[n]) }
    IN  IF ok = {} THEN STR_default
        ELSE candidate_inversion_3d_dirs[CHOOSE n \in ok : \A m \in ok : n <= m]

\* a variant of lines 255-293 without the isdir tests of lines 271 and 291
ValidationError_no_isdir ==
    IF ~EndsWith(Lower(alc2_digest), STR_alc2) THEN "alc2_digest extension"
    ELSE IF ~PathExists(alc2_digest) THEN "alc2_digest missing"
    ELSE IF ~IsFile(alc2_digest) THEN "alc2_digest invalid"
    ELSE IF temp_dir # STR_default /\ ~PathExists(temp_dir) THEN "temp_dir missing"
    ELSE IF inversion_3d_dir = STR_default /\ DefaultInversionDir = STR_default
         THEN "inversion_3d_dir default"
    ELSE IF inversion_3d_dir # STR_default /\ ~PathExists(inversion_3d_dir)
         THEN "inversion_3d_dir missing"
    ELSE "none"

\* lines 255-293: the error that ends the call with an empty dict, or "none"
ValidationError ==
    IF ~EndsWith(Lower(alc2_digest), STR_alc2) THEN "alc2_digest extension"
    ELSE IF ~PathExists(alc2_digest) THEN "alc2_digest missing"
    ELSE IF ~IsFile(alc2_digest) THEN "alc2_digest invalid"
    ELSE IF temp_dir # STR_default /\ ~PathExists(temp_dir) THEN "temp_dir missing"
    ELSE IF temp_dir # STR_default /\ ~IsDir(temp_dir) THEN "temp_dir invalid"
    ELSE IF inversion_3d_dir = STR_default /\ DefaultInversionDir = STR_default
         THEN "inversion_3d_dir default"
    ELSE IF inversion_3d_dir # STR_default /\ ~PathExists(inversion_3d_dir)
         THEN "inversion_3d_dir missing"
    ELSE IF inversion_3d_dir # STR_default /\ ~IsDir(inversion_3d_dir)
         THEN "inversion_3d_dir invalid"
    ELSE "none"

\* lines 252-293: slice_data is created and the arguments are validated; the
\* digest is parsed once its path is valid (content is what parse_digest
\* returns for it)
ValidateArguments ==
    /\ pc = "slice_data"
    /\ slice_data' = <<>>
    /\ IF ValidationError # "none"
       THEN /\ log' = Append(log, <<"ERROR", ValidationError>>)
            /\ pc' = "slice_done"
            /\ UNCHANGED <<temp_dir, inversion_3d_dir>>
       ELSE /\ temp_dir' = IF temp_dir = STR_default THEN os_path_dirname(alc2_digest)
                                                      ELSE temp_dir
            /\ inversion_3d_dir' = IF inversion_3d_dir = STR_default THEN DefaultInversionDir
                                                                      ELSE inversion_3d_dir
            /\ pc' = "slice_keys"
            /\ UNCHANGED log
    /\ UNCHANGED <<alc2_digest, fs, key1, mag_series, contrast_parent_dir, nslices,
                   scanVars, runVars, freqVars, pathVars, lastVars, splitVars, digestVars, seriesVars>>

\* lines 311-314: the candidate locations of a magnitude file
candidate_mag_file_paths(mag_file_path) ==
    << os_path_join(inversion_3d_dir, path_split(mag_file_path, 3)[2]),
       os_path_join(inversion_3d_dir, path_split(mag_file_path, 2)[2]),
       os_path_join(path_split(temp_dir, 2)[1], path_split(mag_file_path, 2)[2]) >>

\* lines 315-325: the loop over the candidates, slice_location being loc before
RECURSIVE CandidateLoop(_, _)
CandidateLoop(cands, loc) ==
    IF cands = <<>> THEN loc
    ELSE IF ReadFails(Head(cands)) THEN CandidateLoop(Tail(cands), loc)
    ELSE IF Truthy(GetSliceLocation(Head(cands))) THEN GetSliceLocation(Head(cands))
    ELSE CandidateLoop(Tail(cands), GetSliceLocation(Head(cands)))

\* line 308: key2.startswith('mre.mag.slice.'+slice_number)
MagKeyMatches(key2, slice_number) == StartsWith(key2, STR_mag_slice \o slice_number)

\* lines 307-331: the loop over the keys from position n on
RECURSIVE KeyLoop(_, _, _)
KeyLoop(n, slice_number, loc) ==
    IF n > Len(content) THEN loc
    ELSE IF MagKeyMatches(content[n][1], slice_number)
    THEN LET found_loc ==
                 CandidateLoop(candidate_mag_file_paths(os_clean_path(content[n][2])), loc)
         IN  IF Truthy(found_loc) THEN found_loc
             ELSE KeyLoop(n + 1, slice_number, found_loc)
    ELSE KeyLoop(n + 1, slice_number, loc)

\* line 303: the record of a slice before its SliceLocation is known
NewSlice(roi_file_path) ==
    [ roi_file_path |-> roi_file_path, storage_path |-> <<>>, loss_path |-> <<>>,
      attenuation_path |-> <<>>, SliceLocation |-> <<>> ]

\* lines 296-338: one iteration of the loop over the keys of content
ScrapeKey ==
    /\ pc = "slice_keys"
    /\ key1 < Len(content)
    /\ key1' = key1 + 1
    /\ LET key == content[key1 + 1][1]
           val == content[key1 + 1][2]
       IN  IF StartsWith(key, STR_roi_slice)
           THEN LET slice_number   == SplitLast(key, STR_roi_slice)
                    roi_file_name  == os_path_basename(os_clean_path(val))
                    roi_file_path  == os_path_join(temp_dir, roi_file_name)
                    slice_location == KeyLoop(1, slice_number, <<>>)
                IN  /\ slice_data' =
                          DictSet(slice_data, slice_number,
                                  [NewSlice(roi_file_path) EXCEPT !.SliceLocation = slice_location])
                    /\ log' = IF Truthy(slice_location) THEN log
                              ELSE Append(log, <<"WARNING", slice_number>>)
                    /\ UNCHANGED mag_series
           ELSE IF key = STR_mag_seriesNumber
           THEN mag_series' = <<val>> /\ UNCHANGED <<slice_data, log>>
           ELSE UNCHANGED <<mag_series, slice_data, log>>
    /\ UNCHANGED <<pc, alc2_digest, temp_dir, inversion_3d_dir, fs, contrast_parent_dir, nslices,
                   scanVars, runVars, freqVars, pathVars, lastVars, splitVars, digestVars, seriesVars>>

\* lines 342-345: the first folder of inversion_3d_dir that mag_series starts
\* with, or 0
ParentFolderIndex ==
    LET fl == dir_folder_list(inversion_3d_dir)
        ok == { n \in DOMAIN fl : StartsWith(mag_series[1], fl[n]) }
    IN  IF ok = {} THEN 0 ELSE CHOOSE n \in ok : \A m \in ok : n <= m

\* lines 341-345: the parent directory of the contrasts; mag_series is read
\* at line 343, which raises UnboundLocalError when no key bound it
FindParent ==
    /\ pc = "slice_keys"
    /\ key1 = Len(content)
    /\ IF mag_series = <<>> /\ dir_folder_list(inversion_3d_dir) # <<>>
       THEN pc' = "slice_raised" /\ contrast_parent_dir' = inversion_3d_dir
       ELSE /\ pc' = "slice_contrasts"
            /\ contrast_parent_dir' =
                   IF mag_series = <<>> \/ ParentFolderIndex = 0 THEN inversion_3d_dir
                   ELSE os_path_join(inversion_3d_dir,
                                     dir_folder_list(inversion_3d_dir)[ParentFolderIndex])
    /\ UNCHANGED <<alc2_digest, temp_dir, inversion_3d_dir, fs, key1, mag_series, slice_data,
                   nslices, log,
                   scanVars, runVars, freqVars, pathVars, lastVars, splitVars, digestVars, seriesVars>>

\* folder[1:-2]
Middle(name) == SubSeq(name, 2, Len(name) - 2)

\* line 354, up to the point where mag_series is read
NamedForContrast(name, code) == StartsWith(name, <<"s">>) /\ EndsWith(name, code)

\* a variant of line 365 that takes any readable file of the directory
FileMatches_any(file, loc) == ~ReadFails(file)

\* lines 359-365: the file can be read and its SliceLocation is the slice's
FileMatches(file, loc) == ~ReadFails(file) /\ GetSliceLocation(file) = loc

\* lines 358-368: the first file of the listing that matches, or ''
RECURSIVE FileLoop(_, _)
FileLoop(files, loc) ==
    IF files = <<>> THEN <<>>
    ELSE IF FileMatches(Head(files), loc) THEN Head(files)
    ELSE FileLoop(Tail(files), loc)

\* lines 353-371: the loop over the folders of contrast_parent_dir
RECURSIVE FolderLoop(_, _, _)
FolderLoop(folders, code, loc) ==
    IF folders = <<>> THEN <<>>
    ELSE IF /\ NamedForContrast(Head(folders), code)
            /\ StartsWith(mag_series[1], Middle(Head(folders)))
    THEN LET path == FileLoop(dir_file_list(os_path_join(contrast_parent_dir, Head(folders))), loc)
         IN  IF path # <<>> THEN path ELSE FolderLoop(Tail(folders), code, loc)
    ELSE FolderLoop(Tail(folders), code, loc)

\* line 354 raises UnboundLocalError: mag_series is unbound and a folder gets
\* past the first two tests for a contrast that has a code
ContrastsRaise ==
    /\ mag_series = <<>>
    /\ \E n \in DOMAIN dir_folder_list(contrast_parent_dir), c \in DOMAIN CONTRASTS :
          /\ CONTRASTS[c][2] # <<>>
          /\ NamedForContrast(dir_folder_list(contrast_parent_dir)[n], CONTRASTS[c][2])

\* lines 350-371 for one slice: its record with the contrast paths found
WithContrasts(rec) ==
    LET fl == dir_folder_list(contrast_parent_dir)
    IN  [rec EXCEPT !.storage_path     = FolderLoop(fl, CONTRASTS[1][2], rec.SliceLocation),
                    !.loss_path        = FolderLoop(fl, CONTRASTS[2][2], rec.SliceLocation),
                    !.attenuation_path = FolderLoop(fl, CONTRASTS[3][2], rec.SliceLocation)]

\* lines 348-371: one iteration of the loop over the slices
AddContrasts ==
    /\ pc = "slice_contrasts"
    /\ nslices < Len(slice_data)
    /\ nslices' = nslices + 1
    /\ LET rec == slice_data[nslices + 1][2]
       IN  IF ~Truthy(rec.SliceLocation)
           THEN UNCHANGED <<pc, slice_data>>
           ELSE IF ContrastsRaise
           THEN pc' = "slice_raised" /\ UNCHANGED slice_data
           ELSE /\ slice_data' = [slice_data EXCEPT ![nslices + 1][2] = WithContrasts(rec)]
                /\ UNCHANGED pc
    /\ UNCHANGED <<alc2_digest, temp_dir, inversion_3d_dir, fs, key1, mag_series,
                   contrast_parent_dir, log,
                   scanVars, runVars, freqVars, pathVars, lastVars, splitVars, digestVars, seriesVars>>

\* line 374: return slice_data
SliceReturn ==
    /\ pc = "slice_contrasts"
    /\ nslices = Len(slice_data)
    /\ pc' = "slice_done"
    /\ UNCHANGED <<sliceVars,
                   scanVars, runVars, freqVars, pathVars, lastVars, splitVars, digestVars, seriesVars>>

----------------------------------------------------------------------------
(* The calls of get_mmdi3d_slice_data: a case laid out as                  *)
(* /i/h/t/d.alc2 with the inversion output under /i/3dmmdi or /i/h/3dmmdi, *)
(* a digest that records the files where they were when it was written     *)
(* (under /o), magnitude series 700.                                       *)

P_digest       == <<"/", "i", "/", "h", "/", "t", "/", "d", ".", "a", "l", "c", "2">>
P_digest_upper == <<"/", "i", "/", "h", "/", "t", "/", "D", ".", "A", "L", "C", "2">>
P_digest_alc   == <<"/", "i", "/", "h", "/", "t", "/", "d", ".", "a", "l", "c">>
P_inv_input    == <<"/", "i", "/", "3", "d", "m", "m", "d", "i">>
P_inv_hepplus  == <<"/", "i", "/", "h", "/", "3", "d", "m", "m", "d", "i">>
P_inv_given    == <<"/", "v">>
P_temp_given   == <<"/", "w">>

K_roi_1  == STR_roi_slice \o <<"1">>
K_roi_10 == STR_roi_slice \o <<"1", "0">>
K_mag_1  == STR_mag_slice \o <<"1">>
K_mag_10 == STR_mag_slice \o <<"1", "0">>

V_roi_1  == <<"/", "o", "/", "r", "1">>
V_roi_10 == <<"/", "o", "/", "r", "1", "0">>
V_mag_1  == <<"/", "o", "/", "7", "/", "s", "7", "0", "0", "/", "m", "1">>
V_mag_10 == <<"/", "o", "/", "7", "/", "s", "7", "0", "0", "/", "m", "1", "0">>
V_series == <<"7", "0", "0">>

\* the key-value pairs of the digests
ContentEntries ==
    { <<K_roi_1, V_roi_1>>, <<K_roi_10, V_roi_10>>, <<K_mag_1, V_mag_1>>,
      <<K_mag_10, V_mag_10>>, <<STR_mag_seriesNumber, V_series>> }

\* number of keys of a digest
MaxKeys == 3

\* what parse_digest returns: distinct keys in the order of the file
Contents ==
    { c \in UNION { [1..n -> ContentEntries] : n \in 0..MaxKeys } :
        \A m, n \in DOMAIN c : c[m] = c[n] => m = n }

DefaultContent == << <<STR_mag_seriesNumber, V_series>>, <<K_roi_1, V_roi_1>>, <<K_mag_1, V_mag_1>> >>

\* DICOM headers: without SliceLocation, and with the values 0, 5 and 7
NoLocation == [SliceLocation |-> <<>>]
Location(v) == [SliceLocation |-> <<v>>]

\* a function from the set of its <<argument, value>> pairs
FnOf(pairs) == [x \in { pr[1] : pr \in pairs } |-> (CHOOSE pr \in pairs : pr[1] = x)[2]]

\* where a magnitude file lies: nowhere, as inv/7/s700/m, as inv/s700/m, as
\* /i/s700/m, or as inv/s700/m with a file without SliceLocation at inv/7/s700/m
MagPlaces == {"none", "new", "legacy", "input", "untagged_new"}

MagFiles(inv, place, name, h) ==
    CASE place = "none"   -> {}
      [] place = "new"    -> { <<inv \o <<"/", "7", "/", "s", "7", "0", "0", "/">> \o name, h>> }
      [] place = "legacy" -> { <<inv \o <<"/", "s", "7", "0", "0", "/">> \o name, h>> }
      [] place = "input"  -> { <<<<"/", "i", "/", "s", "7", "0", "0", "/">> \o name, h>> }
      [] place = "untagged_new" ->
             { <<inv \o <<"/", "7", "/", "s", "7", "0", "0", "/">> \o name, NoLocation>>,
               <<inv \o <<"/", "s", "7", "0", "0", "/">> \o name, h>> }

\* the magnitude files of slice 1 and of slice 10 on disk
MagLayouts ==
    { [place1 |-> p1, header1 |-> h1, place10 |-> p10] :
        p1 \in MagPlaces, h1 \in {NoLocation, Location(0), Location(5)},
        p10 \in {"none", "new"} }

DefaultMagLayout == [place1 |-> "new", header1 |-> Location(5), place10 |-> "none"]

\* number of files of a contrast directory
MaxFiles == 2

\* what the files of a contrast directory are, in listing order: <<>> for a
\* file pydicom cannot read, <<header>> for one it can
FileListings ==
    UNION { [1..n -> {<<>>, <<Location(5)>>, <<Location(7)>>}] : n \in 0..MaxFiles }
    \cup { << <<Location(0)>>, <<Location(5)>> >>, << <<NoLocation>>, <<Location(5)>> >> }

\* the folders of the parent directory of the contrasts
ParentListings ==
    { <<>>,
      << <<"s", "7", "0", "0", "2", "6">> >>,
      << <<"s", "7", "0", "2", "6">>, <<"s", "7", "0", "0", "2", "6">> >>,
      << <<"s", "8", "0", "0", "2", "6">>, <<"s", "7", "0", "0", "2", "6">> >>,
      << <<"s", "7", "0", "0", "2", "7">>, <<"s", "2", "6">> >>,
      << <<"x", "7", "0", "0", "2", "6">>, <<"s", "7", "0", "0", "2", "8">> >> }

\* what the files of the second contrast directory are
LaterListings ==
    { <<>>, << <<Location(5)>> >>, << <<Location(7)>> >>, << <<>>, <<Location(5)>> >> }

\* the contrast directories with the folders pl (one or two) and their
\* files: lists[n] for the n-th folder
ContrastLayouts(pl) ==
    { [nested |-> b, parent |-> pl, lists |-> SubSeq(ls, 1, Len(pl))] :
        b \in BOOLEAN, ls \in FileListings \X LaterListings }

DefaultContrastLayout ==
    [ nested |-> TRUE,
      parent |-> << <<"s", "7", "0", "0", "2", "6">>, <<"s", "7", "0", "0", "2", "7">> >>,
      lists  |-> << << <<Location(7)>>, <<Location(5)>> >>, << <<Location(7)>> >> >> ]

\* the name of the n-th file of a contrast directory
FileName(nf) == <<"f", <<"1", "2", "3", "4", "5", "6", "7", "8", "9">>[nf]>>

\* the directory that holds the contrast directories
ContrastParent(inv, con) == IF con.nested THEN inv \o <<"/", "7">> ELSE inv

\* the readable contrast files under inv, with their headers
ContrastFiles(inv, con) ==
    UNION { { << ContrastParent(inv, con) \o <<"/">> \o con.parent[n] \o <<"/">> \o FileName(nf),
                 con.lists[n][nf][1] >> :
                nf \in { m \in DOMAIN con.lists[n] : con.lists[n][m] # <<>> } } :
            n \in DOMAIN con.parent }

\* the listings of the contrast directories under inv
ContrastListings(inv, con) ==
    { << ContrastParent(inv, con) \o <<"/">> \o con.parent[n],
         [nf \in DOMAIN con.lists[n] |-> FileName(nf)] >> : n \in DOMAIN con.parent }

\* magnitude files lie in inv/7/s700, in inv/s700
InNew(mag) == mag.place1 \in {"new", "untagged_new"} \/ mag.place10 = "new"
InLegacy(mag) == mag.place1 \in {"legacy", "untagged_new"}

\* the folders of inv and of inv/7, as os.walk lists them
FolderListings(inv, mag, con) ==
    LET s700 == << <<"s", "7", "0", "0">> >>
    IN  { << inv,
             IF con.nested
             THEN << <<"8">>, <<"7">> >> \o (IF InLegacy(mag) THEN s700 ELSE <<>>)
             ELSE (IF InNew(mag) THEN << <<"7">> >> ELSE <<>>)
                  \o (IF InLegacy(mag) THEN s700 ELSE <<>>) \o con.parent >>,
          << inv \o <<"/", "7">>,
             (IF InNew(mag) THEN s700 ELSE <<>>) \o (IF con.nested THEN con.parent ELSE <<>>) >> }

\* the file system: kind for the paths the validation asks about, and under
\* each inversion directory of invs the magnitude files of mag and the
\* contrast directories of con
SliceFs(kind, invs, mag, con) ==
    [ kind    |-> kind,
      dcm     |-> FnOf(UNION { MagFiles(inv, mag.place1, <<"m", "1">>, mag.header1)
                               \cup MagFiles(inv, mag.place10, <<"m", "1", "0">>, Location(7))
                               \cup ContrastFiles(inv, con) : inv \in invs }),
      folders |-> FnOf(UNION { FolderListings(inv, mag, con) : inv \in invs }),
      files   |-> FnOf(UNION { ContrastListings(inv, con) : inv \in invs }) ]

\* the case as it is on disk when nothing is wrong with it
DefaultKind == (P_digest :> "file") @@ (P_inv_input :> "dir")

\* calls that differ in the arguments and in what exists at their paths
ValidationCallsOf(d) ==
    { [ alc2_digest |-> d, temp_dir |-> td, inversion_3d_dir |-> id, content |-> DefaultContent,
        fs |-> SliceFs(kind, { x \in DOMAIN kind \cap {P_inv_input, P_inv_hepplus, P_inv_given} :
                                 kind[x] = "dir" },
                       DefaultMagLayout, DefaultContrastLayout) ] :
        td \in {STR_default, P_temp_given},
        id \in {STR_default, P_inv_given},
        kind \in UNION { [K -> {"file", "dir"}] :
                          K \in SUBSET {d, P_temp_given, P_inv_given, P_inv_input,
                                        P_inv_hepplus} } }

\* calls that differ in where the magnitude files lie, for a digest c
ScrapeCalls(c) ==
    { [ alc2_digest |-> P_digest, temp_dir |-> STR_default, inversion_3d_dir |-> STR_default,
        content |-> c,
        fs |-> SliceFs(DefaultKind, {P_inv_input}, mag, DefaultContrastLayout) ] :
        mag \in MagLayouts }

\* calls that differ in the files of the contrast directories pl and in the
\* SliceLocation of the magnitude file, 5 or 0
ContrastCalls(pl) ==
    { [ alc2_digest |-> P_digest, temp_dir |-> STR_default, inversion_3d_dir |-> STR_default,
        content |-> c,
        fs |-> SliceFs(DefaultKind, {P_inv_input},
                       [DefaultMagLayout EXCEPT !.place1 = IF con.nested THEN "new" ELSE "legacy",
                                                !.header1 = h],
                       con) ] :
        h \in {Location(5), Location(0)},
        c \in { DefaultContent,
                << <<K_roi_1, V_roi_1>>, <<K_mag_1, V_mag_1>> >>,
                << <<K_roi_1, V_roi_1>>, <<K_mag_1, V_mag_1>>, <<STR_mag_seriesNumber, V_series>> >> },
        con \in ContrastLayouts(pl) }

\* the calls that vary one part of the input: the arguments and the paths
\* they name, the digest and the magnitude files, the contrast directories
SliceCalls(part) ==
    CASE part = "arguments" ->
             UNION { ValidationCallsOf(d) : d \in {P_digest, P_digest_upper, P_digest_alc} }
      [] part = "digest"    -> UNION { ScrapeCalls(c) : c \in Contents }
      [] part = "contrasts" -> UNION { ContrastCalls(pl) : pl \in ParentListings }

InitSlice ==
    /\ pc = "slice_data"
    /\ \E part \in {"arguments", "digest", "contrasts"} : \E call \in SliceCalls(part) :
          /\ alc2_digest = call.alc2_digest
          /\ temp_dir = call.temp_dir
          /\ inversion_3d_dir = call.inversion_3d_dir
          /\ content = call.content
          /\ fs = call.fs
    /\ key1 = 0 /\ mag_series = <<>> /\ slice_data = <<>> /\ nslices = 0
    /\ contrast_parent_dir = <<>> /\ log = <<>>
    /\ digest_text = <<>> /\ lines = <<>> /\ comments = <<>> /\ parsed = <<>>
    /\ IdleScan /\ IdleRun /\ IdleFreq /\ IdlePath /\ IdleLast /\ IdleSplit /\ IdleSeries

NextSlice == ValidateArguments \/ ScrapeKey \/ FindParent \/ AddContrasts \/ SliceReturn

SpecSlice == InitSlice /\ [][NextSlice]_vars

----------------------------------------------------------------------------
(* Claims about get_mmdi3d_slice_data.                                     *)

\* the arguments of the call are invalid: the digest path lacks the .alc2
\* extension, does not exist or is not a file, a supplied directory does not
\* exist or is not a directory, or no default inversion directory exists
InvalidArguments ==
    \/ ~EndsWith(Lower(alc2_digest), STR_alc2)
    \/ alc2_digest \notin DOMAIN fs.kind
    \/ fs.kind[alc2_digest] # "file"
    \/ /\ temp_dir # STR_default
       /\ (temp_dir \notin DOMAIN fs.kind \/ fs.kind[temp_dir] # "dir")
    \/ /\ inversion_3d_dir # STR_default
       /\ (inversion_3d_dir \notin DOMAIN fs.kind \/ fs.kind[inversion_3d_dir] # "dir")
    \/ /\ inversion_3d_dir = STR_default
       /\ {P_inv_input, P_inv_hepplus} \cap DOMAIN fs.kind = {}

\* C18: a call of get_mmdi3d_slice_data with an invalid digest path, an
\* invalid supplied temp_dir or inversion_3d_dir, or without a default
\* inversion directory returns an empty mapping, logs one error, raises
\* nothing and never looks at a key of the digest.
C18_InvalidArgumentsReturnEmpty ==
    [][(pc = "slice_data" /\ InvalidArguments)
         => /\ pc' = "slice_done"
            /\ slice_data' = <<>>
            /\ Len(log') = 1 /\ log'[1][1] = "ERROR"
            /\ key1' = 0 /\ nslices' = 0]_vars

\* a call whose digest is valid and names slices, but whose supplied
\* temp_dir is a file, has returned
C18_Witness ==
    /\ pc = "slice_done"
    /\ alc2_digest = P_digest /\ IsFile(alc2_digest)
    /\ temp_dir = P_temp_given /\ IsFile(temp_dir)
    /\ \E n \in DOMAIN content : StartsWith(content[n][1], STR_roi_slice)
    /\ slice_data = <<>> /\ log = << <<"ERROR", "temp_dir invalid">> >>

\* the SliceLocation loc is the one of a readable candidate file of the
\* magnitude reference that the digest gives under key
ReadFromKey(key, loc) ==
    \E m \in DOMAIN content :
        /\ content[m][1] = key
        /\ \E c \in 1..3 :
              LET mag_candidate == candidate_mag_file_paths(os_clean_path(content[m][2]))[c]
              IN  ~ReadFails(mag_candidate) /\ GetSliceLocation(mag_candidate) = loc

\* C19: the SliceLocation recorded for ROI slice number S is read from the
\* magnitude reference of the same slice number, the value of the digest key
\* 'mre.mag.slice.S', never from the reference of another slice number, for
\* every digest and every order of its keys.
C19_LocationFromSameSlice ==
    \A n \in DOMAIN slice_data :
        slice_data[n][2].SliceLocation # <<>>
            => ReadFromKey(STR_mag_slice \o slice_data[n][1], slice_data[n][2].SliceLocation)

\* the path that the record of a slice holds for the n-th contrast
ContrastPath(rec, n) ==
    CASE n = 1 -> rec.storage_path
      [] n = 2 -> rec.loss_path
      [] n = 3 -> rec.attenuation_path

\* name is 's', then a prefix of the magnitude series number, then the code
\* of the contrast
MatchingDirectory(name, code) ==
    /\ mag_series # <<>>
    /\ \E n \in 0..Len(mag_series[1]) : name = <<"s">> \o SubSeq(mag_series[1], 1, n) \o code

\* file is listed in a matching directory of the contrast with this code,
\* can be read and has SliceLocation loc
ContrastFileOf(file, code, loc) ==
    /\ \E dir \in DOMAIN fs.files :
          /\ MatchingDirectory(os_path_basename(dir), code)
          /\ \E nf \in DOMAIN fs.files[dir] : file = dir \o <<"/">> \o fs.files[dir][nf]
    /\ file \in DOMAIN fs.dcm
    /\ fs.dcm[file].SliceLocation = loc

\* C20: for every slice and every direct contrast (storage, loss,
\* attenuation), the contrast's path is either the empty string or names a
\* file of a matching directory of that contrast whose SliceLocation equals
\* the SliceLocation recorded for the slice.
C20_ContrastPathHasSliceLocation ==
    \A n \in DOMAIN slice_data : \A c \in 1..3 :
        LET rec == slice_data[n][2]
        IN  \/ ContrastPath(rec, c) = <<>>
            \/ ContrastFileOf(ContrastPath(rec, c), CONTRASTS[c][2], rec.SliceLocation)

\* the call has returned a slice with SliceLocation 5 whose storage path is
\* the second file of s70026, the first having SliceLocation 7, and whose
\* loss path is empty, the only file of s70027 having SliceLocation 7
C20_Witness ==
    /\ pc = "slice_done"
    /\ \E n \in DOMAIN slice_data :
          /\ slice_data[n][2].SliceLocation = <<5>>
          /\ slice_data[n][2].storage_path = P_inv_input \o <<"/", "7", "/", "s", "7", "0", "0", "2", "6", "/", "f", "2">>
          /\ slice_data[n][2].loss_path = <<>>
          /\ (P_inv_input \o <<"/", "7", "/", "s", "7", "0", "0", "2", "6", "/", "f", "1">>) \in DOMAIN fs.dcm
          /\ (P_inv_input \o <<"/", "7", "/", "s", "7", "0", "0", "2", "7", "/", "f", "1">>) \in DOMAIN fs.dcm

\* the call has returned after its arguments were found valid
SliceResult == pc = "slice_done" /\ (log = <<>> \/ log[1][1] # "ERROR")

\* a candidate file of the magnitude reference under key can be read and has
\* a SliceLocation tag
YieldsLocation(key) ==
    \E m \in DOMAIN content :
        /\ content[m][1] = key
        /\ \E c \in 1..3 :
              LET mag_candidate == candidate_mag_file_paths(os_clean_path(content[m][2]))[c]
              IN  ~ReadFails(mag_candidate) /\ GetSliceLocation(mag_candidate) # <<>>

\* the ROI slice numbers of the digest
RoiSlices ==
    { SubSeq(content[n][1], Len(STR_roi_slice) + 1, Len(content[n][1])) :
        n \in { m \in DOMAIN content : StartsWith(content[m][1], STR_roi_slice) } }

\* the value of the ROI key of slice S
RoiValue(S) == content[CHOOSE n \in DOMAIN content : content[n][1] = STR_roi_slice \o S][2]

\* C21: an ROI slice for which no candidate file of its magnitude reference
\* yields a SliceLocation is in the result with its roi_file_path, without
\* SliceLocation and with every contrast path empty; a warning is logged for
\* it and the other ROI slices of the digest are in the result too.
C21_UnlocatedSliceKept ==
    SliceResult =>
        /\ \A S \in RoiSlices : \E n \in DOMAIN slice_data : slice_data[n][1] = S
        /\ \A n \in DOMAIN slice_data :
              LET S == slice_data[n][1]
                  rec == slice_data[n][2]
              IN  (S \in RoiSlices /\ ~YieldsLocation(STR_mag_slice \o S))
                      => /\ rec.roi_file_path
                              = temp_dir \o <<"/">> \o os_path_basename(RoiValue(S))
                         /\ rec.SliceLocation = <<>>
                         /\ rec.storage_path = <<>> /\ rec.loss_path = <<>>
                         /\ rec.attenuation_path = <<>>
                         /\ \E m \in DOMAIN log : log[m] = <<"WARNING", S>>

\* the n-th folder of the contrast parent directory, as a path
ContrastDir(n) == contrast_parent_dir \o <<"/">> \o dir_folder_list(contrast_parent_dir)[n]

\* the nf-th file of the n-th folder, as a path
ContrastFile(n, nf) == ContrastDir(n) \o <<"/">> \o fs.files[ContrastDir(n)][nf]

\* the files with SliceLocation loc in the matching directories of the
\* contrast with this code, as <<position of the folder, position of the file>>
LocatedFiles(code, loc) ==
    { x \in (DOMAIN dir_folder_list(contrast_parent_dir)) \X (1..MaxFiles) :
        /\ MatchingDirectory(dir_folder_list(contrast_parent_dir)[x[1]], code)
        /\ ContrastDir(x[1]) \in DOMAIN fs.files
        /\ x[2] \in DOMAIN fs.files[ContrastDir(x[1])]
        /\ ContrastFile(x[1], x[2]) \in DOMAIN fs.dcm
        /\ fs.dcm[ContrastFile(x[1], x[2])].SliceLocation = loc }

\* the first of them in listing order
FirstLocatedFile(code, loc) ==
    LET x == CHOOSE x \in LocatedFiles(code, loc) :
                 \A y \in LocatedFiles(code, loc) :
                     x[1] < y[1] \/ (x[1] = y[1] /\ x[2] <= y[2])
    IN  ContrastFile(x[1], x[2])

\* C22: for each slice with a SliceLocation and each direct contrast, the
\* path recorded is the first file, in listing order of the matching
\* directories and of their files, whose SliceLocation equals the slice's;
\* no later file or directory replaces it, and the path is empty when no
\* file matches.
C22_FirstMatchingFileRecorded ==
    SliceResult =>
        \A n \in DOMAIN slice_data : \A c \in 1..3 :
            LET rec == slice_data[n][2]
            IN  rec.SliceLocation # <<>> =>
                    ContrastPath(rec, c) =
                        IF LocatedFiles(CONTRASTS[c][2], rec.SliceLocation) = {} THEN <<>>
                        ELSE FirstLocatedFile(CONTRASTS[c][2], rec.SliceLocation)

\* C23: a call whose digest has ROI slice keys but no 'mre.mag.seriesNumber'
\* key raises no exception.
C23_NoSeriesNumberNoException ==
    (/\ RoiSlices # {}
     /\ \A n \in DOMAIN content : content[n][1] # STR_mag_seriesNumber)
        => pc # "slice_raised"

\* C29: a slice whose magnitude file has SliceLocation 0 is handled like
\* any other: no 'no SliceLocation found' warning is logged for it and its
\* contrast paths are the first contrast files with SliceLocation 0.
C29_LocationZeroIsALocation ==
    SliceResult =>
        \A n \in DOMAIN slice_data :
            LET S == slice_data[n][1]
                rec == slice_data[n][2]
            IN  rec.SliceLocation = <<0>> =>
                    /\ \A m \in DOMAIN log : log[m] # <<"WARNING", S>>
                    /\ \A c \in 1..3 :
                          ContrastPath(rec, c) =
                              IF LocatedFiles(CONTRASTS[c][2], <<0>>) = {} THEN <<>>
                              ELSE FirstLocatedFile(CONTRASTS[c][2], <<0>>)

----------------------------------------------------------------------------
(* find_mmdi3d_datasets over two enumerations of the same folders.         *)

\* a valid Siemens magnitude or phase folder of series number sn; the folder
\* is named by its series number, which is distinct from the others'
SiemensFolder(sn, half) ==
    [name |-> sn,
     dcm |-> [Manufacturer |-> <<"S","I","E","M","E","N","S">>,
              SeriesDescription |-> <<"9","2","8"," ","3","D"," ">> \o half,
              SequenceName |-> <<"e","p","2","d">>,
              SeriesNumber |-> sn],
     nfiles |-> 1, firstbad |-> FALSE]

\* the sets of valid Siemens folders with pairwise distinct series numbers
SiemensFolderSets ==
    UNION { { { SiemensFolder(sn, half[sn]) : sn \in S } : half \in [S -> {STR_mag, STR_p_p}] } :
            S \in { T \in SUBSET (1..MaxSeries) : T # {} /\ Cardinality(T) <= MaxFolders } }

\* the orders in which os.listdir may give the folders of a set (line 43:
\* dir_folder_list does not sort)
Enumerations(S) ==
    { e \in [1..Cardinality(S) -> S] : \A a, b \in 1..Cardinality(S) : e[a] = e[b] => a = b }

\* lines 43-119 for one folder of the listing being scanned: one iteration of
\* the loop, careful mode
OrderFolder ==
    /\ pc = "order"
    /\ Len(datasets) < Len(folder_lists)
    /\ nscanned < Len(folder_lists[Len(datasets) + 1])
    /\ LET f == folder_lists[Len(datasets) + 1][nscanned + 1]
       IN  IF SkipFolder(f, FALSE)
           THEN /\ outcome' = "skip"
                /\ UNCHANGED <<data, Manufacturer>>
           ELSE /\ Manufacturer' = ClassifyManufacturer(f.dcm, Manufacturer)
                /\ data' = AddFolder(data, f, FALSE, Manufacturer')
                /\ outcome' = Branch(f, FALSE, Manufacturer')
    /\ nscanned' = nscanned + 1
    /\ UNCHANGED <<pc, rapid, folder, runVars, freqVars, pathVars, splitVars, digestVars,
                   seriesVars, sliceVars, folder_lists, datasets, roiVars, ffracVars>>

\* line 122: the call returns data3d; the next call starts from lines 37-41
OrderReturn ==
    /\ pc = "order"
    /\ Len(datasets) < Len(folder_lists)
    /\ nscanned = Len(folder_lists[Len(datasets) + 1])
    /\ datasets' = Append(datasets, data)
    /\ data' = <<>>
    /\ Manufacturer' = ""
    /\ nscanned' = 0
    /\ outcome' = "start"
    /\ pc' = IF Len(datasets') = Len(folder_lists) THEN "order_done" ELSE "order"
    /\ UNCHANGED <<rapid, folder, runVars, freqVars, pathVars, splitVars, digestVars,
                   seriesVars, sliceVars, folder_lists, roiVars, ffracVars>>

InitOrder ==
    /\ pc = "order"
    /\ IdleScan /\ IdleRun /\ IdleFreq /\ IdlePath
    /\ IdleSplit /\ IdleDigest /\ IdleSeries /\ IdleSlice /\ IdleRoi /\ IdleFfrac
    /\ datasets = <<>>
    /\ \E S \in SiemensFolderSets : \E e1, e2 \in Enumerations(S) : folder_lists = <<e1, e2>>

NextOrder == OrderFolder \/ OrderReturn

SpecOrder == InitOrder /\ [][NextOrder]_vars

\* an entry of data3d['data'] viewed as its mag_series/phase_series pair
SeriesPair(e) ==
    <<IF "mag_series" \in DOMAIN e THEN <<e.mag_series>> ELSE <<>>,
      IF "phase_series" \in DOMAIN e THEN <<e.phase_series>> ELSE <<>> >>

SeriesPairs(d) == { SeriesPair(d[n]) : n \in 1..Len(d) }

\* C30: for a fixed set of valid Siemens mag and phase folders with pairwise
\* distinct series numbers, the set of entries returned by
\* find_mmdi3d_datasets, each viewed as its mag_series/phase_series pair, is
\* the same for every order in which the folders are enumerated
C30_SameEntriesEveryOrder ==
    pc = "order_done" => SeriesPairs(datasets[1]) = SeriesPairs(datasets[2])

----------------------------------------------------------------------------
(* apply_rois_to_mmdi3d_contrasts.  A pixel value is a rational <<n, d>>   *)
(* with d > 0 in lowest terms, or "nan"; an image is the sequence of its   *)
(* pixels and a stack is the concatenation of its images.  A statistic is  *)
(* kept as the number of hundredths np.round(x, 2) leaves: str() of it is  *)
(* modelled by <<hundredths>>, and '' by <<>>.                             *)

Abs(x) == IF x < 0 THEN -x ELSE x

RECURSIVE GCD(_, _)
GCD(a, b) == IF b = 0 THEN Abs(a) ELSE GCD(b, a % Abs(b))

LCM(a, b) == (a \div GCD(a, b)) * b

\* the rational num/den in lowest terms with a positive denominator
Rat(num, den) ==
    LET g == GCD(num, den)
        s == IF den < 0 THEN -1 ELSE 1
    IN  <<s * (num \div g), s * (den \div g)>>

\* np.round of num/den (den > 0) to an integer: the nearest one, a tie going
\* to the even one
RoundHalfEven(num, den) ==
    LET q == num \div den
        r == num % den
    IN  IF 2 * r < den THEN q
        ELSE IF 2 * r > den THEN q + 1
        ELSE IF q % 2 = 0 THEN q ELSE q + 1

\* np.round(num/den, 2), in hundredths
Round2(num, den) == RoundHalfEven(100 * num, den)

RECURSIVE CommonDen(_)
CommonDen(vals) == IF vals = <<>> THEN 1 ELSE LCM(Head(vals)[2], CommonDen(Tail(vals)))

\* the numerators of vals over the denominator den
Numerators(vals, den) == [n \in DOMAIN vals |-> vals[n][1] * (den \div vals[n][2])]

RECURSIVE SumSeq(_)
SumSeq(xs) == IF xs = <<>> THEN 0 ELSE Head(xs) + SumSeq(Tail(xs))

RECURSIVE Insert(_, _)
Insert(x, s) ==
    IF s = <<>> THEN <<x>>
    ELSE IF x <= Head(s) THEN <<x>> \o s
    ELSE <<Head(s)>> \o Insert(x, Tail(s))

RECURSIVE Sort(_)
Sort(xs) == IF xs = <<>> THEN <<>> ELSE Insert(Head(xs), Sort(Tail(xs)))

\* lines 418 and 462: np.round(np.mean(pixel_values), 2)
np_mean(vals) ==
    LET den == CommonDen(vals)
    IN  Round2(SumSeq(Numerators(vals, den)), Len(vals) * den)

\* the least h with (h + 1/2)^2 * a > b, for a > 0: 100 times the square root
\* of the variance b/a (in ten-thousandths), rounded to an integer
RECURSIVE RootFrom(_, _, _)
RootFrom(h, a, b) ==
    IF (2 * h + 1) * (2 * h + 1) * a > 4 * b THEN h ELSE RootFrom(h + 1, a, b)

\* lines 419 and 463: np.round(np.std(pixel_values), 2); the variance is
\* (n * sum(x^2) - sum(x)^2) / n^2
np_std(vals) ==
    LET den == CommonDen(vals)
        xs  == Numerators(vals, den)
        n   == Len(vals)
        g   == GCD(den, 100)
        ss  == n * SumSeq([m \in DOMAIN xs |-> xs[m] * xs[m]]) - SumSeq(xs) * SumSeq(xs)
    IN  RootFrom(0, (den \div g) * (den \div g) * n * n, (100 \div g) * (100 \div g) * ss)

\* np.percentile(pixel_values, 25 * quarters) by linear interpolation between
\* the sorted values, rounded to hundredths
np_percentile(vals, quarters) ==
    LET den == CommonDen(vals)
        xs  == Sort(Numerators(vals, den))
        pos == (Len(vals) - 1) * quarters
        lo  == (pos \div 4) + 1
        hi  == IF lo < Len(vals) THEN lo + 1 ELSE lo
    IN  Round2(4 * xs[lo] + (pos % 4) * (xs[hi] - xs[lo]), 4 * den)

\* lines 385: the fields of a contrast before any computation
EmptyStatistics == [mean |-> <<>>, stddev |-> <<>>, median |-> <<>>, range |-> <<>>]

\* lines 418-421 and 462-465: the four fields computed from pixel_values
Statistics(vals) ==
    [mean   |-> <<np_mean(vals)>>,
     stddev |-> <<np_std(vals)>>,
     median |-> <<np_percentile(vals, 2)>>,
     range  |-> <<np_percentile(vals, 1), np_percentile(vals, 3)>>]

\* the key of contrast_data and the *_path key of a slice for the contrast at
\* position c of CONTRASTS
ContrastName(c) == CONTRASTS[c][1]

\* lines 394-396 and 438-439: slice_data[slice_number][key] for the keys read
PathOf(rec, key) ==
    CASE key = "roi"         -> rec.roi_file_path
      [] key = "storage"     -> rec.storage_path
      [] key = "loss"        -> rec.loss_path
      [] key = "attenuation" -> rec.attenuation_path

\* lines 393-400 and 437-442: the positions in slice_data of the slices whose
\* paths under all of keys are non-empty, in the order of the dict
RECURSIVE SlicesWith(_, _)
SlicesWith(sd, keys) ==
    IF sd = <<>> THEN <<>>
    ELSE LET rest == SlicesWith(SubSeq(sd, 1, Len(sd) - 1), keys)
         IN  IF \A key \in keys : PathOf(sd[Len(sd)][2], key) # <<>>
             THEN Append(rest, Len(sd))
             ELSE rest

\* the paths under key of the slices at positions sel
PathsOf(sel, key) == [n \in DOMAIN sel |-> PathOf(slice_data[sel[n]][2], key)]

\* read_images line 197: pydicom.read_file raises for a path that holds no
\* DICOM file
ReadRaises(paths) == \E n \in DOMAIN paths : paths[n] \notin DOMAIN pixel_array

\* read_images lines 196-203: the paths handed to pydicom.read_file, up to the
\* first that raises
ReadsOf(paths) ==
    IF ReadRaises(paths)
    THEN SubSeq(paths, 1, CHOOSE n \in DOMAIN paths :
                              /\ paths[n] \notin DOMAIN pixel_array
                              /\ \A m \in 1..(n - 1) : paths[m] \in DOMAIN pixel_array)
    ELSE paths

\* read_images lines 192-204: the stack of the images at paths
RECURSIVE read_images(_)
read_images(paths) ==
    IF paths = <<>> THEN <<>>
    ELSE pixel_array[Head(paths)] \o read_images(Tail(paths))

\* stack[mask] for a boolean mask of the shape of stack
RECURSIVE BooleanIndex(_, _)
BooleanIndex(stack, mask) ==
    IF stack = <<>> THEN <<>>
    ELSE IF Head(mask) THEN <<Head(stack)>> \o BooleanIndex(Tail(stack), Tail(mask))
    ELSE BooleanIndex(Tail(stack), Tail(mask))

\* lines 458-461: the divisor of the rescaling factor of a direct contrast
ScaleDivisor(c) ==
    IF ContrastName(c) \in {"storage", "loss"} THEN 1000
    ELSE IF ContrastName(c) = "attenuation" THEN 10000
    ELSE 1

\* a variant of DirectPixelValues that never excludes negative pixels
DirectPixelValues_all_signs(c, exclude) ==
    LET sel == SlicesWith(slice_data, {"roi", ContrastName(c)})
        roi_stack      == read_images(PathsOf(sel, "roi"))
        contrast_stack == read_images(PathsOf(sel, ContrastName(c)))
        pixel_values   == BooleanIndex(contrast_stack, [n \in DOMAIN roi_stack |-> roi_stack[n] > 0])
    IN  [n \in DOMAIN pixel_values |-> Rat(pixel_values[n], ScaleDivisor(c))]

\* lines 447-461: pixel_values of the direct contrast at position c, rescaled
DirectPixelValues(c, exclude) ==
    LET sel == SlicesWith(slice_data, {"roi", ContrastName(c)})
        roi_stack_0      == read_images(PathsOf(sel, "roi"))
        contrast_stack_0 == read_images(PathsOf(sel, ContrastName(c)))
        positive_pixels  == [n \in DOMAIN contrast_stack_0 |-> contrast_stack_0[n] >= 0]
        roi_stack        == IF exclude THEN BooleanIndex(roi_stack_0, positive_pixels)
                                       ELSE roi_stack_0
        contrast_stack   == IF exclude THEN BooleanIndex(contrast_stack_0, positive_pixels)
                                       ELSE contrast_stack_0
        pixel_values     == BooleanIndex(contrast_stack, [n \in DOMAIN roi_stack |-> roi_stack[n] > 0])
    IN  [n \in DOMAIN pixel_values |-> Rat(pixel_values[n], ScaleDivisor(c))]

\* the reads of one iteration: read_images is called for the ROI paths first
\* and for the next list of paths only when the call before it returned
RECURSIVE ReadsOfLists(_)
ReadsOfLists(path_lists) ==
    IF path_lists = <<>> THEN <<>>
    ELSE IF ReadRaises(Head(path_lists)) THEN ReadsOf(Head(path_lists))
    ELSE Head(path_lists) \o ReadsOfLists(Tail(path_lists))

\* the reads of the contrast at position c, added to read_paths
Recorded(c, path_lists) ==
    LET reads == ReadsOfLists(path_lists)
    IN  read_paths \o [n \in DOMAIN reads |-> <<c, reads[n]>>]

\* lines 434-471: the iteration of the loop of line 388 for storage, loss or
\* attenuation
ComputeDirect ==
    /\ pc = "apply"
    /\ contrast < Len(CONTRASTS)
    /\ ContrastName(contrast + 1) \in {"storage", "loss", "attenuation"}
    /\ contrast' = contrast + 1
    /\ LET c   == contrast + 1
           sel == SlicesWith(slice_data, {"roi", ContrastName(c)})
           path_lists == <<PathsOf(sel, "roi"), PathsOf(sel, ContrastName(c))>>
       IN  IF sel = <<>>
           THEN /\ log' = Append(log, <<"WARNING", "no slices have all required image paths", c>>)
                /\ UNCHANGED <<pc, contrast_data, read_paths>>
           ELSE /\ read_paths' = Recorded(c, path_lists)
                /\ IF \E n \in DOMAIN path_lists : ReadRaises(path_lists[n])
                   THEN /\ pc' = "apply_raised"
                        /\ UNCHANGED <<contrast_data, log>>
                   ELSE LET pixel_values == DirectPixelValues(c, exclude_negative_pixels)
                        IN  /\ pc' = pc
                            /\ IF Len(pixel_values) > 0
                               THEN /\ contrast_data' = [contrast_data EXCEPT ![c] = Statistics(pixel_values)]
                                    /\ UNCHANGED log
                               ELSE /\ log' = Append(log, <<"WARNING", "no valid pixels", c>>)
                                    /\ UNCHANGED contrast_data
    /\ UNCHANGED <<scanVars, runVars, freqVars, pathVars, splitVars, digestVars, seriesVars,
                   alc2_digest, temp_dir, inversion_3d_dir, fs, key1, mag_series, slice_data,
                   contrast_parent_dir, nslices, orderVars, ffracVars,
                   exclude_negative_pixels, pixel_array>>

\* what an element of the result of np.divide holds where the where-mask is
\* False: no out array is given, so the element is never written and keeps
\* whatever the allocated memory held
Uninitialized == {"nan", <<0, 1>>, <<1, 1>>}

\* lines 405-412: the three stacks, after the exclusion of negative pixels
DampingStacks(exclude) ==
    LET sel == SlicesWith(slice_data, {"roi", "storage", "loss"})
        roi_stack_0     == read_images(PathsOf(sel, "roi"))
        storage_stack_0 == read_images(PathsOf(sel, "storage"))
        loss_stack_0    == read_images(PathsOf(sel, "loss"))
        positive_pixels == [n \in DOMAIN storage_stack_0 |->
                                storage_stack_0[n] >= 0 /\ loss_stack_0[n] >= 0]
    IN  IF exclude
        THEN [roi     |-> BooleanIndex(roi_stack_0, positive_pixels),
              storage |-> BooleanIndex(storage_stack_0, positive_pixels),
              loss    |-> BooleanIndex(loss_stack_0, positive_pixels)]
        ELSE [roi |-> roi_stack_0, storage |-> storage_stack_0, loss |-> loss_stack_0]

\* lines 413-414: damping_ratio_stack and the pixel_values selected from it;
\* memory gives the content of the elements np.divide does not write
DampingPixelValues(stacks, memory) ==
    LET damping_ratio_stack ==
            [n \in DOMAIN stacks.storage |->
                IF stacks.storage[n] # 0 THEN Rat(stacks.loss[n], 2 * stacks.storage[n])
                ELSE memory[n]]
    IN  BooleanIndex(damping_ratio_stack,
                     [n \in DOMAIN damping_ratio_stack |->
                         stacks.roi[n] > 0 /\ damping_ratio_stack[n] # "nan"])

\* the elements of the storage stack np.divide skips
ZeroStorage(stacks) == { n \in DOMAIN stacks.storage : stacks.storage[n] = 0 }

\* lines 390-427: the iteration of the loop of line 388 for damping_ratio
ComputeDampingRatio ==
    /\ pc = "apply"
    /\ contrast < Len(CONTRASTS)
    /\ ContrastName(contrast + 1) = "damping_ratio"
    /\ contrast' = contrast + 1
    /\ LET c   == contrast + 1
           sel == SlicesWith(slice_data, {"roi", "storage", "loss"})
           path_lists == <<PathsOf(sel, "roi"), PathsOf(sel, "storage"), PathsOf(sel, "loss")>>
       IN  IF sel = <<>>
           THEN /\ log' = Append(log, <<"WARNING", "no slices have all required image paths", c>>)
                /\ UNCHANGED <<pc, contrast_data, read_paths>>
           ELSE /\ read_paths' = Recorded(c, path_lists)
                /\ IF \E n \in DOMAIN path_lists : ReadRaises(path_lists[n])
                   THEN /\ pc' = "apply_raised"
                        /\ UNCHANGED <<contrast_data, log>>
                   ELSE LET stacks == DampingStacks(exclude_negative_pixels)
                        IN  \E memory \in [ZeroStorage(stacks) -> Uninitialized] :
                              LET pixel_values == DampingPixelValues(stacks, memory)
                              IN  /\ pc' = pc
                                  /\ IF Len(pixel_values) > 0
                                     THEN /\ contrast_data' = [contrast_data EXCEPT ![c] = Statistics(pixel_values)]
                                          /\ UNCHANGED log
                                     ELSE /\ log' = Append(log, <<"WARNING", "no valid pixels", c>>)
                                          /\ UNCHANGED contrast_data
    /\ UNCHANGED <<scanVars, runVars, freqVars, pathVars, splitVars, digestVars, seriesVars,
                   alc2_digest, temp_dir, inversion_3d_dir, fs, key1, mag_series, slice_data,
                   contrast_parent_dir, nslices, orderVars, ffracVars,
                   exclude_negative_pixels, pixel_array>>

\* a variant of SkipVolumetricStrain that gives volumetric_strain the
\* statistics of storage
SkipVolumetricStrain_as_storage ==
    /\ pc = "apply"
    /\ contrast < Len(CONTRASTS)
    /\ ContrastName(contrast + 1) = "volumetric_strain"
    /\ contrast' = contrast + 1
    /\ contrast_data' = [contrast_data EXCEPT ![contrast + 1] = contrast_data[1]]
    /\ UNCHANGED <<pc, scanVars, runVars, freqVars, pathVars, splitVars, digestVars, seriesVars,
                   sliceVars, orderVars, ffracVars,
                   exclude_negative_pixels, pixel_array, read_paths>>

\* lines 430-431: the iteration of the loop of line 388 for volumetric_strain
SkipVolumetricStrain ==
    /\ pc = "apply"
    /\ contrast < Len(CONTRASTS)
    /\ ContrastName(contrast + 1) = "volumetric_strain"
    /\ contrast' = contrast + 1
    /\ UNCHANGED <<pc, scanVars, runVars, freqVars, pathVars, splitVars, digestVars, seriesVars,
                   sliceVars, orderVars, ffracVars,
                   exclude_negative_pixels, pixel_array, contrast_data, read_paths>>

\* line 474
ApplyReturn ==
    /\ pc = "apply"
    /\ contrast = Len(CONTRASTS)
    /\ pc' = "apply_done"
    /\ UNCHANGED <<scanVars, runVars, freqVars, pathVars, splitVars, digestVars, seriesVars,
                   sliceVars, lastVars>>

\* the most slices of a slice_data handed to apply_rois_to_mmdi3d_contrasts
MaxRoiSlices == 2

\* what a path key of a slice stands for: <<>> is the empty path, <<"nofile">>
\* a path that holds no DICOM file, <<"file", pixels>> a path whose file has
\* this pixel_array
NoPath == <<>>
NoFile == <<"nofile">>
Image(pixels) == <<"file", pixels>>

\* the ROI masks of a slice
RoiImages == { NoPath, NoFile, Image(<<0, 0>>), Image(<<0, 1>>), Image(<<-1, 1>>) }

\* the contrast images of a slice
ContrastImages ==
    { [storage |-> NoPath,             loss |-> NoPath,            attenuation |-> NoPath],
      [storage |-> Image(<<2, 0>>),    loss |-> Image(<<1, 5>>),   attenuation |-> NoPath],
      [storage |-> Image(<<2, 4>>),    loss |-> Image(<<-1, 3>>),  attenuation |-> Image(<<10, 30>>)],
      [storage |-> Image(<<40, -20>>), loss |-> NoPath,            attenuation |-> Image(<<30, -10>>)],
      [storage |-> Image(<<0, 0>>),    loss |-> Image(<<1, 5>>),   attenuation |-> NoPath],
      [storage |-> NoPath,             loss |-> Image(<<1, 5>>),   attenuation |-> Image(<<10, 30>>)] }

GeneralSlices == { [roi |-> r] @@ ci : r \in RoiImages, ci \in ContrastImages }

\* the slices of the worked examples: a 2x2 mask [[0,1],[0,1]] on storage
\* values [[10,20],[30,40]], and storage [2,0], loss [1,5] under an all-true
\* mask
ExampleSlices ==
    { [roi |-> Image(<<0, 1, 0, 1>>), storage |-> Image(<<10, 20, 30, 40>>),
       loss |-> NoPath, attenuation |-> NoPath],
      [roi |-> Image(<<1, 1>>), storage |-> Image(<<2, 0>>), loss |-> Image(<<1, 5>>),
       attenuation |-> NoPath] }

\* the stacks handed over: all slices of a stack have the shape of the first
RoiInputs(most) ==
    UNION { [1..n -> GeneralSlices] : n \in 0..most } \cup { <<s>> : s \in ExampleSlices }

\* the name of the slice at position n and the path of one of its files
SliceNumber(n) == <<"1", "2", "3", "4", "5", "6", "7", "8", "9">>[n]
ImagePath(n, key) == <<"/", key, "/">> \o <<SliceNumber(n)>>

PathIn(sl, n, key) == IF sl[n][key] = NoPath THEN <<>> ELSE ImagePath(n, key)

\* slice_data as get_mmdi3d_slice_data returns it for the slices sl
SliceDataOf(sl) ==
    [n \in DOMAIN sl |->
        <<SliceNumber(n),
          [roi_file_path    |-> PathIn(sl, n, "roi"),
           storage_path     |-> PathIn(sl, n, "storage"),
           loss_path        |-> PathIn(sl, n, "loss"),
           attenuation_path |-> PathIn(sl, n, "attenuation"),
           SliceLocation    |-> <<n>>]>>]

\* ds.pixel_array of the files of the slices sl, by path
PixelArrayOf(sl) ==
    FnOf(UNION { { <<ImagePath(n, key), sl[n][key][2]>> :
                     key \in { x \in {"roi", "storage", "loss", "attenuation"} :
                                  sl[n][x] # NoPath /\ sl[n][x] # NoFile } } :
                 n \in DOMAIN sl })

\* lines 376 and 385: the call and the initial contrast_data
InitRoi ==
    /\ pc = "apply"
    /\ IdleScan /\ IdleRun /\ IdleFreq /\ IdlePath
    /\ IdleSplit /\ IdleDigest /\ IdleSeries /\ IdleOrder /\ IdleFfrac
    /\ alc2_digest = <<>> /\ temp_dir = <<>> /\ inversion_3d_dir = <<>> /\ fs = <<>>
    /\ key1 = 0 /\ mag_series = <<>> /\ nslices = 0 /\ contrast_parent_dir = <<>>
    /\ log = <<>>
    /\ exclude_negative_pixels \in BOOLEAN
    /\ \E sl \in RoiInputs(MaxRoiSlices) :
          /\ slice_data = SliceDataOf(sl)
          /\ pixel_array = PixelArrayOf(sl)
    /\ contrast = 0
    /\ contrast_data = [c \in DOMAIN CONTRASTS |-> EmptyStatistics]
    /\ read_paths = <<>>

NextRoi == ComputeDirect \/ ComputeDampingRatio \/ SkipVolumetricStrain \/ ApplyReturn

SpecRoi == InitRoi /\ [][NextRoi]_vars

----------------------------------------------------------------------------
(* Claims about apply_rois_to_mmdi3d_contrasts.                            *)

\* the position in CONTRASTS of the contrast named name
ContrastAt(name) == CHOOSE c \in DOMAIN CONTRASTS : ContrastName(c) = name

\* C27: the statistics of volumetric_strain are empty in the result, for every
\* slice_data and either value of exclude_negative_pixels, and no image is
\* read for it
C27_VolumetricStrainEmpty ==
    pc \in {"apply", "apply_done", "apply_raised"} =>
        /\ contrast_data[ContrastAt("volumetric_strain")] = EmptyStatistics
        /\ \A n \in DOMAIN read_paths : read_paths[n][1] # ContrastAt("volumetric_strain")

\* the call returned with exclude_negative_pixels set and with statistics for
\* storage, so that there were images the function could have used
C27_Witness ==
    /\ pc = "apply_done"
    /\ exclude_negative_pixels
    /\ contrast_data[ContrastAt("storage")] # EmptyStatistics
    /\ contrast_data[ContrastAt("volumetric_strain")] = EmptyStatistics

\* the direct contrasts
DirectContrasts == { ContrastAt("storage"), ContrastAt("loss"), ContrastAt("attenuation") }

\* the pixels of the contrast at position c taken slice by slice: of every
\* slice that has both an ROI path and the path of the contrast, the pixels
\* at which the mask passes (above zero, or any value but zero when nonzero
\* is set) and, when drop_negative is set, the contrast value is not
\* negative; each divided by the contrast's divisor
RECURSIVE PixelsBySlice(_, _, _, _)
PixelsBySlice(sd, c, nonzero, drop_negative) ==
    IF sd = <<>> THEN <<>>
    ELSE LET rec  == sd[Len(sd)][2]
             rest == PixelsBySlice(SubSeq(sd, 1, Len(sd) - 1), c, nonzero, drop_negative)
         IN  IF rec.roi_file_path = <<>> \/ PathOf(rec, ContrastName(c)) = <<>> THEN rest
             ELSE LET mask  == pixel_array[rec.roi_file_path]
                      image == pixel_array[PathOf(rec, ContrastName(c))]
                      taken == { m \in DOMAIN image :
                                   /\ IF nonzero THEN mask[m] # 0 ELSE mask[m] > 0
                                   /\ drop_negative => image[m] >= 0 }
                      kept  == BooleanIndex(image, [m \in DOMAIN image |-> m \in taken])
                  IN  rest \o [m \in DOMAIN kept |-> Rat(kept[m], ScaleDivisor(c))]

\* the fields of a contrast whose statistics are computed over vals
StatisticsOver(vals) == IF vals = <<>> THEN EmptyStatistics ELSE Statistics(vals)

\* the slice_data of the worked example of the direct contrasts
DirectExample ==
    /\ Len(slice_data) = 1
    /\ slice_data[1][2].roi_file_path # <<>> /\ slice_data[1][2].storage_path # <<>>
    /\ slice_data[1][2].roi_file_path \in DOMAIN pixel_array
    /\ pixel_array[slice_data[1][2].roi_file_path] = <<0, 1, 0, 1>>
    /\ pixel_array[slice_data[1][2].storage_path] = <<10, 20, 30, 40>>

\* C25 as stated: the statistics of a direct contrast are computed over
\* exactly the pixels, of the slices with an ROI path and the contrast's path,
\* at which the ROI mask is nonzero, scaled by the contrast's factor
C25_StatisticsOverNonzeroMask ==
    pc = "apply_done" =>
        \A c \in DirectContrasts :
            contrast_data[c] = StatisticsOver(PixelsBySlice(slice_data, c, TRUE, FALSE))

\* C25 amended: the statistics of a direct contrast are computed over exactly
\* the pixels, of the slices with an ROI path and the contrast's path, at
\* which the ROI mask is above zero and, when exclude_negative_pixels is set,
\* the contrast value is not negative, scaled by the contrast's factor; the
\* mask [[0,1],[0,1]] on the values [[10,20],[30,40]] selects 20 and 40 and
\* gives the mean 0.03
C25_StatisticsOverSelectedPixels ==
    pc = "apply_done" =>
        /\ \A c \in DirectContrasts :
              contrast_data[c] =
                  StatisticsOver(PixelsBySlice(slice_data, c, FALSE, exclude_negative_pixels))
        /\ DirectExample =>
              /\ PixelsBySlice(slice_data, ContrastAt("storage"), FALSE, exclude_negative_pixels)
                     = <<Rat(20, 1000), Rat(40, 1000)>>
              /\ contrast_data[ContrastAt("storage")].mean = <<3>>

\* the call returned statistics for storage computed over two slices, with
\* exclude_negative_pixels set and a negative storage pixel under the mask
C25_Witness ==
    /\ pc = "apply_done"
    /\ exclude_negative_pixels
    /\ Len(slice_data) = 2
    /\ contrast_data[ContrastAt("storage")] # EmptyStatistics
    /\ Len(PixelsBySlice(slice_data, ContrastAt("storage"), FALSE, FALSE))
           > Len(PixelsBySlice(slice_data, ContrastAt("storage"), FALSE, TRUE))
    /\ \A n \in DOMAIN slice_data : slice_data[n][2].storage_path # <<>>

\* the damping ratios taken slice by slice: of every slice that has an ROI
\* path, a storage path and a loss path, the pixels under the mask whose
\* storage value is not 0 (and, when drop_negative is set, whose storage and
\* loss values are not negative), each as 0.5*loss/storage
RECURSIVE DampingBySlice(_, _)
DampingBySlice(sd, drop_negative) ==
    IF sd = <<>> THEN <<>>
    ELSE LET rec  == sd[Len(sd)][2]
             rest == DampingBySlice(SubSeq(sd, 1, Len(sd) - 1), drop_negative)
         IN  IF rec.roi_file_path = <<>> \/ rec.storage_path = <<>> \/ rec.loss_path = <<>>
             THEN rest
             ELSE LET mask    == pixel_array[rec.roi_file_path]
                      storage == pixel_array[rec.storage_path]
                      loss    == pixel_array[rec.loss_path]
                      taken   == { m \in DOMAIN storage :
                                     /\ mask[m] > 0
                                     /\ storage[m] # 0
                                     /\ drop_negative => (storage[m] >= 0 /\ loss[m] >= 0) }
                      ratios  == [m \in DOMAIN storage |->
                                     IF m \in taken THEN Rat(loss[m], 2 * storage[m]) ELSE "nan"]
                  IN  rest \o BooleanIndex(ratios, [m \in DOMAIN storage |-> m \in taken])

\* the slice_data of the worked example of the damping ratio
DampingExample ==
    /\ Len(slice_data) = 1
    /\ slice_data[1][2].roi_file_path # <<>> /\ slice_data[1][2].storage_path # <<>>
    /\ slice_data[1][2].loss_path # <<>>
    /\ slice_data[1][2].roi_file_path \in DOMAIN pixel_array
    /\ pixel_array[slice_data[1][2].roi_file_path] = <<1, 1>>
    /\ pixel_array[slice_data[1][2].storage_path] = <<2, 0>>
    /\ pixel_array[slice_data[1][2].loss_path] = <<1, 5>>

\* C26: the statistics of damping_ratio are computed over the ROI pixels
\* (those left by exclude_negative_pixels) whose storage value is not 0, each
\* contributing 0.5*loss/storage, a pixel whose storage value is 0 being
\* left out; for storage [2,0], loss [1,5] under an all-true mask only the
\* first pixel contributes, with the value 0.25
C26_ZeroStorageExcluded ==
    pc = "apply_done" =>
        /\ contrast_data[ContrastAt("damping_ratio")] =
               StatisticsOver(DampingBySlice(slice_data, exclude_negative_pixels))
        /\ DampingExample =>
               contrast_data[ContrastAt("damping_ratio")] = Statistics(<<Rat(1, 4)>>)

\* the keys of a slice whose paths the contrast at position c requires
RequiredPaths(c) ==
    IF c \in DirectContrasts THEN {"roi", ContrastName(c)}
    ELSE IF c = ContrastAt("damping_ratio") THEN {"roi", "storage", "loss"}
    ELSE {}

\* a slice of slice_data has all the paths the contrast at position c requires
SomeSliceHasPaths(c) ==
    /\ RequiredPaths(c) # {}
    /\ \E n \in DOMAIN slice_data :
          \A key \in RequiredPaths(c) : PathOf(slice_data[n][2], key) # <<>>

\* the valid pixels of the contrast at position c: the pixels under the mask
\* left by exclude_negative_pixels and, for damping_ratio, by the zero-guard
\* on the storage value; volumetric_strain has none
ValidPixels(c) ==
    IF c \in DirectContrasts THEN PixelsBySlice(slice_data, c, FALSE, exclude_negative_pixels)
    ELSE IF c = ContrastAt("damping_ratio") THEN DampingBySlice(slice_data, exclude_negative_pixels)
    ELSE <<>>

Fields(c) == { contrast_data[c].mean, contrast_data[c].stddev,
               contrast_data[c].median, contrast_data[c].range }

\* C24: in the result, the four fields of every contrast are all empty or all
\* populated; they are all empty exactly when no slice has the required paths
\* or no valid pixel is selected
C24_FieldsAllOrNone ==
    pc = "apply_done" =>
        \A c \in DOMAIN CONTRASTS :
            /\ Fields(c) = {<<>>} \/ <<>> \notin Fields(c)
            /\ Fields(c) = {<<>>} <=> (~SomeSliceHasPaths(c) \/ ValidPixels(c) = <<>>)

----------------------------------------------------------------------------
(* get_roi_and_ffrac_images_from_digest: the rescaling of the fat-fraction *)
(* slices.  A tag of a header is <<>> when absent and <<value>> when       *)
(* present; a pixel value is a rational as above.                          *)

\* the most fat-fraction slices paired with an ROI slice
MaxFfracSlices == 2

GrayValueComment == "Gray value 1 equals 0.1%"

\* `if slope`, `if intercept`: dcm.get gives None for an absent tag, and a
\* number is true when it is not 0
TagIsTrue(tag) == tag # <<>> /\ tag[1] # 0

\* line 556: float(slope)*ffrac_image[:,:,i]+float(intercept)
Rescaled(image, slope, intercept) ==
    [m \in DOMAIN image |->
        Rat(slope * image[m][1] + intercept * image[m][2], image[m][2])]

\* line 562: 0.1*ffrac_image[:,:,i]
Tenth(image) == [m \in DOMAIN image |-> Rat(image[m][1], 10 * image[m][2])]

\* numpy.quantile(image, q=tenths/10) by linear interpolation between the
\* sorted values, as the pair <<numerator, denominator>>
np_quantile(image, tenths) ==
    LET den == CommonDen(image)
        xs  == Sort(Numerators(image, den))
        pos == (Len(image) - 1) * tenths
        lo  == (pos \div 10) + 1
        hi  == IF lo < Len(image) THEN lo + 1 ELSE lo
    IN  <<10 * xs[lo] + (pos % 10) * (xs[hi] - xs[lo]), 10 * den>>

\* line 563: a significant amount of pixel values is out of the range 0-100
OutOfRange(image) ==
    \/ np_quantile(image, 1)[1] < 0
    \/ 100 * np_quantile(image, 9)[2] < np_quantile(image, 9)[1]

\* lines 551-564: one iteration of the rescaling loop
RescaleSlice ==
    /\ pc = "rescale"
    /\ ffrac_i < Len(ffrac_dcms)
    /\ ffrac_i' = ffrac_i + 1
    /\ LET n         == ffrac_i + 1
           dcm       == ffrac_dcms[n]
           slope     == dcm.RescaleSlope
           intercept == dcm.RescaleIntercept
       IN  IF TagIsTrue(slope) /\ TagIsTrue(intercept)
           THEN /\ ffrac_image' = [ffrac_image EXCEPT ![n] = Rescaled(@, slope[1], intercept[1])]
                /\ UNCHANGED printed
           ELSE IF ~TagIsTrue(slope) /\ TagIsTrue(intercept)
           THEN /\ printed' = Append(printed, <<"found intercept but no slope", n>>)
                /\ UNCHANGED ffrac_image
           ELSE IF ~TagIsTrue(intercept) /\ TagIsTrue(slope)
           THEN /\ printed' = Append(printed, <<"found slope but no intercept", n>>)
                /\ UNCHANGED ffrac_image
           ELSE IF dcm.ImageComments = <<GrayValueComment>>
           THEN /\ ffrac_image' = [ffrac_image EXCEPT ![n] = Tenth(@)]
                /\ UNCHANGED printed
           ELSE IF OutOfRange(ffrac_image[n])
           THEN /\ printed' = Append(printed, <<"out of range 0-100", n>>)
                /\ UNCHANGED ffrac_image
           ELSE UNCHANGED <<ffrac_image, printed>>
    /\ UNCHANGED <<pc, scanVars, runVars, freqVars, pathVars, splitVars, digestVars, seriesVars,
                   sliceVars, orderVars, roiVars, ffrac_dcms>>

\* lines 566-572: the images are returned; the ROI image has the shape of the
\* fat-fraction image, so that nothing is upscaled
FfracReturn ==
    /\ pc = "rescale"
    /\ ffrac_i = Len(ffrac_dcms)
    /\ pc' = "rescale_done"
    /\ UNCHANGED <<scanVars, runVars, freqVars, pathVars, splitVars, digestVars, seriesVars,
                   sliceVars, lastVars>>

\* the values of the tags of a fat-fraction file
SlopeTags == { <<>>, <<0>>, <<2>> }
InterceptTags == { <<>>, <<0>>, <<1>> }
CommentTags == { <<>>, <<GrayValueComment>>, <<"percent">> }

\* the pixel values of a fat-fraction file: within 0-100, and mostly outside
InRangePixels == <<Rat(5, 1), Rat(50, 1)>>
OutOfRangePixels == <<Rat(-50, 1), Rat(500, 1)>>

\* the files at ffrac_paths: every combination of tags on pixels within
\* range, and files without rescale tags on pixels out of range
FfracFiles ==
    { [RescaleSlope |-> s, RescaleIntercept |-> t, ImageComments |-> ic,
       pixel_array |-> InRangePixels] :
         s \in SlopeTags, t \in InterceptTags, ic \in CommentTags }
    \cup { [RescaleSlope |-> <<>>, RescaleIntercept |-> <<>>, ImageComments |-> ic,
            pixel_array |-> OutOfRangePixels] : ic \in CommentTags }

FfracInputs(most) == UNION { [1..n -> FfracFiles] : n \in 0..most }

\* lines 546-548: the images are loaded before the loop
InitFfrac ==
    /\ pc = "rescale"
    /\ IdleScan /\ IdleRun /\ IdleFreq /\ IdlePath
    /\ IdleSplit /\ IdleDigest /\ IdleSeries /\ IdleSlice /\ IdleOrder /\ IdleRoi
    /\ ffrac_dcms \in FfracInputs(MaxFfracSlices)
    /\ ffrac_image = [n \in DOMAIN ffrac_dcms |-> ffrac_dcms[n].pixel_array]
    /\ ffrac_i = 0
    /\ printed = <<>>

NextFfrac == RescaleSlice \/ FfracReturn

SpecFfrac == InitFfrac /\ [][NextFfrac]_vars

\* the warnings printed for slice n that name a missing slope or intercept
RescaleWarnings(n) ==
    { m \in DOMAIN printed :
        /\ printed[m][2] = n
        /\ printed[m][1] \in {"found intercept but no slope", "found slope but no intercept"} }

\* C28: for each fat-fraction slice, when RescaleSlope and RescaleIntercept are
\* both present, whatever their values, the slice is rescaled as
\* slope*value+intercept; when exactly one is present the slice is left as it
\* is and a warning is printed; when neither is present and ImageComments is
\* 'Gray value 1 equals 0.1%' the slice is multiplied by 0.1; no slice has
\* two of these outcomes
C28_RescaleOutcomePerSlice ==
    pc \in {"rescale", "rescale_done"} =>
        \A n \in 1..ffrac_i :
            LET dcm       == ffrac_dcms[n]
                slope     == dcm.RescaleSlope
                intercept == dcm.RescaleIntercept
            IN  /\ (slope # <<>> /\ intercept # <<>>) =>
                      /\ ffrac_image[n] = Rescaled(dcm.pixel_array, slope[1], intercept[1])
                      /\ RescaleWarnings(n) = {}
                /\ ((slope = <<>>) # (intercept = <<>>)) =>
                      /\ ffrac_image[n] = dcm.pixel_array
                      /\ Cardinality(RescaleWarnings(n)) = 1
                /\ (slope = <<>> /\ intercept = <<>> /\ dcm.ImageComments = <<GrayValueComment>>) =>
                      /\ ffrac_image[n] = Tenth(dcm.pixel_array)
                      /\ RescaleWarnings(n) = {}

====
